---- MODULE Spec2Model ----
(***************************************************************************)
(* Fan control engine of fn-fan (app/server/fan_control.py).               *)
(*                                                                         *)
(* The model follows FanController: the rolling temperature histories,    *)
(* the curve evaluation, the control cycle (_read_temps followed by the    *)
(* warm-up gate, the enabled check, the safety fallback, the curve         *)
(* computation, the PWM threshold and the actuator write), the alert       *)
(* bookkeeping, the loop thread and the API operations.                    *)
(*                                                                         *)
(* Optional[int] values are integers with None as the absent value;        *)
(* optional strings use NoneStr.  linear_map is evaluated in exact         *)
(* rational arithmetic and truncated toward zero, which is what the        *)
(* float expression of the source yields on every input of the bounded     *)
(* sets used here.                                                         *)
(***************************************************************************)
EXTENDS Integers, Sequences, FiniteSets, TLC

(***************************************************************************)
(* Absent values                                                           *)
(***************************************************************************)
None == -9999

NoneStr == "None"

(***************************************************************************)
(* Bounds of the model                                                     *)
(***************************************************************************)
\* largest history depth (temp_history_size) a configuration may carry
MaxHist == 2

\* number of loop threads that can exist at once
MaxThreads == 2

\* cap on the ghost count of cycles since start()
MaxCycles == 3

\* longest curve handed to calculate_pwm_from_curve on its own
MaxCurveLen == 3

\* the clock runs from Epoch to Epoch + MaxTime
MaxTime == 2

\* time.time() when the engine is constructed
Epoch == 10

MaxWarmup == 3

(***************************************************************************)
(* Program constants                                                       *)
(***************************************************************************)
SafePwm == 128

DefaultPwm == 100

PwmMin == 0

PwmMax == 255

IdleBand == 60

WorkBand == 120

WarningBand == 200

\* legacy threshold mode: FanConfig defaults
cpu_idle_temp_min == 45

cpu_idle_temp_max == 50

cpu_work_temp_max == 62

cpu_warning_temp_max == 72

cpu_critical_temp_max == 80

disk_idle_temp_min == 38

disk_idle_temp_max == 40

disk_work_temp_max == 42

disk_warning_temp_max == 44

disk_critical_temp_max == 46

idle_pwm_min == 30

idle_pwm_max == 60

work_pwm_min == 60

work_pwm_max == 150

warning_pwm_min == 150

warning_pwm_max == 220

critical_pwm_min == 220

critical_pwm_max == 255

(***************************************************************************)
(* Arithmetic helpers                                                      *)
(***************************************************************************)
Min(a, b) == IF a <= b THEN a ELSE b

Max(a, b) == IF a >= b THEN a ELSE b

Abs(a) == IF a >= 0 THEN a ELSE 0 - a

\* int(n / d) of Python for d > 0: truncation toward zero
TruncDiv(n, d) == IF n >= 0 THEN n \div d ELSE 0 - ((0 - n) \div d)

RECURSIVE SumSeq(_)
SumSeq(s) == IF s = <<>> THEN 0 ELSE Head(s) + SumSeq(Tail(s))

(***************************************************************************)
(* linear_map and the curve evaluation                                     *)
(***************************************************************************)
linear_map_mirrored(value, in_min, in_max, out_min, out_max) ==
    IF in_max <= in_min
    THEN out_min
    ELSE LET den == in_max - in_min
             num == (in_max - value) * (out_max - out_min)
             result == TruncDiv(out_min * den + num, den)
         IN  Max(out_min, Min(out_max, result))

linear_map(value, in_min, in_max, out_min, out_max) ==
    IF in_max <= in_min
    THEN out_min
    ELSE LET den == in_max - in_min
             num == (value - in_min) * (out_max - out_min)
             result == TruncDiv(out_min * den + num, den)
         IN  Max(out_min, Min(out_max, result))

\* sorted(curve, key=temp): a stable insertion sort
RECURSIVE InsertPoint(_, _)
InsertPoint(p, s) ==
    IF s = <<>> THEN <<p>>
    ELSE IF p.temp < Head(s).temp THEN <<p>> \o s
    ELSE <<Head(s)>> \o InsertPoint(p, Tail(s))

SortCurve_asgiven(curve) == curve

RECURSIVE SortCurve(_)
SortCurve(curve) ==
    IF curve = <<>> THEN <<>>
    ELSE InsertPoint(curve[Len(curve)], SortCurve(SubSeq(curve, 1, Len(curve) - 1)))

StageOfPwm(pwm) ==
    IF pwm < IdleBand THEN "idle"
    ELSE IF pwm < WorkBand THEN "work"
    ELSE IF pwm < WarningBand THEN "warning"
    ELSE "critical"

\* the first segment i with sorted_curve[i].temp <= temp <= sorted_curve[i+1].temp
Segments(temp, sorted_curve) ==
    {i \in 1..(Len(sorted_curve) - 1) :
        sorted_curve[i].temp <= temp /\ temp <= sorted_curve[i + 1].temp}

FirstOf(hits) == CHOOSE k \in hits : \A j \in hits : k <= j

\* lines 457-466: the stage that goes with an interpolated PWM
Staged(pwm) == <<pwm, StageOfPwm(pwm)>>

\* lines 453-466: interpolation between the two points of a segment
Interpolate(temp, p1, p2) == Staged(linear_map(temp, p1.temp, p2.temp, p1.pwm, p2.pwm))

InSegment(temp, sorted_curve, hits) ==
    IF hits = {} THEN <<DefaultPwm, "unknown">>
    ELSE Interpolate(temp, sorted_curve[FirstOf(hits)], sorted_curve[FirstOf(hits) + 1])

CurveValue_open(temp, sorted_curve) ==
    IF temp < sorted_curve[1].temp THEN <<sorted_curve[1].pwm, "idle">>
    ELSE IF temp > sorted_curve[Len(sorted_curve)].temp
    THEN <<sorted_curve[Len(sorted_curve)].pwm, "critical">>
    ELSE InSegment(temp, sorted_curve, Segments(temp, sorted_curve))

\* lines 444-468: the evaluation of the sorted curve
CurveValue(temp, sorted_curve) ==
    IF temp <= sorted_curve[1].temp THEN <<sorted_curve[1].pwm, "idle">>
    ELSE IF temp >= sorted_curve[Len(sorted_curve)].temp
    THEN <<sorted_curve[Len(sorted_curve)].pwm, "critical">>
    ELSE InSegment(temp, sorted_curve, Segments(temp, sorted_curve))

calculate_pwm_from_curve_off(temp, curve) ==
    IF curve = <<>> THEN <<PwmMin, "unknown">>
    ELSE CurveValue(temp, SortCurve(curve))

calculate_pwm_from_curve(temp, curve) ==
    IF curve = <<>> THEN <<DefaultPwm, "unknown">>
    ELSE CurveValue(temp, SortCurve(curve))

calculate_pwm(temp, cfg, is_cpu) ==
    IF cfg.use_curve_mode
    THEN calculate_pwm_from_curve(temp, IF is_cpu THEN cfg.cpu_curve ELSE cfg.disk_curve)
    ELSE
    LET idle_min == IF is_cpu THEN cpu_idle_temp_min ELSE disk_idle_temp_min
        idle_max == IF is_cpu THEN cpu_idle_temp_max ELSE disk_idle_temp_max
        work_max == IF is_cpu THEN cpu_work_temp_max ELSE disk_work_temp_max
        warning_max == IF is_cpu THEN cpu_warning_temp_max ELSE disk_warning_temp_max
        critical_max == IF is_cpu THEN cpu_critical_temp_max ELSE disk_critical_temp_max
    IN  IF temp < idle_max
        THEN <<linear_map(temp, idle_min, idle_max, idle_pwm_min, idle_pwm_max), "idle">>
        ELSE IF temp < work_max
        THEN <<linear_map(temp, idle_max, work_max, work_pwm_min, work_pwm_max), "work">>
        ELSE IF temp < warning_max
        THEN <<linear_map(temp, work_max, warning_max, warning_pwm_min, warning_pwm_max),
               "warning">>
        ELSE IF temp < critical_max
        THEN <<linear_map(temp, warning_max, critical_max, critical_pwm_min,
                          critical_pwm_max), "critical">>
        ELSE <<critical_pwm_max, "emergency">>

(***************************************************************************)
(* State                                                                   *)
(***************************************************************************)
DiskIds == {"Disk1", "Disk2"}

\* what the PWM control file holds before the engine touches it
InitialPwm == {255}

Threads == 1..MaxThreads

VARIABLES
    config,                 \* FanController.config (FanConfig)
    disks,                  \* FanController.disks, keyed by DiskInfo.id
    cpu_temp_history,       \* FanController.cpu_temp_history
    disk_temp_history,      \* FanController.disk_temp_history (missing key = empty list)
    warmup_counter,         \* FanController.warmup_counter
    is_warmed_up,           \* FanController.is_warmed_up
    last_alert_time_cpu,    \* FanController.last_alert_time_cpu
    last_alert_time_disk,   \* FanController.last_alert_time_disk (None = no key)
    status,                 \* FanController.status
    running,                \* FanController.running
    pc,                     \* position of each loop thread
    pwm_file,               \* content of config.pwm_control_file
    now,                    \* the wall clock
    obs,                    \* what the last control cycle decided (observation)
    pushes,                 \* what the last control cycle handed to _send_push
    cycles,                 \* control cycles completed since start(), saturating
    depth_fixed,            \* temp_history_size unchanged since start()
    sampled,                \* port values of the last _read_temps (observation)
    prev,                   \* observation of the cycle before the last one
    shadow,                 \* second engine, driven in lockstep for comparison, or
                            \* another reference kept next to the engine
    call,                   \* arguments of a call of a module-level function, or
                            \* the frames of the method invocations in flight
    ret,                    \* what that call returned, as a tuple (<<>> = not yet)
    lock                    \* holder of FanController.lock (NoneStr = free)

vars == <<config, disks, cpu_temp_history, disk_temp_history, warmup_counter,
          is_warmed_up, last_alert_time_cpu, last_alert_time_disk, status, running,
          pc, pwm_file, now, obs, pushes, cycles, depth_fixed, sampled, prev, shadow,
          call, ret, lock>>

\* no module-level function is being called
NoCall == call = None /\ ret = <<>>

\* FanController.__init__: self.status
InitStatus ==
    [cpu_temp |-> None, cpu_avg_temp |-> None, disk_temps |-> <<>>,
     disk_avg_temps |-> <<>>, max_disk_temp |-> None, fan_rpm |-> None,
     current_pwm |-> None, target_pwm |-> None, trigger_source |-> NoneStr,
     trigger_stage |-> NoneStr, is_warmed_up |-> FALSE, warmup_progress |-> 0,
     last_update |-> None]

\* kind: which branch the cycle took; cpu_avg, max_disk, cur: what it read from
\* status; cpu_pwm .. raw: its locals; wrote: the value handed to set_pwm;
\* force: the content of the PWM file when the cycle ended; depth: the history
\* depth in force during the cycle
NoObs ==
    [kind |-> "none", depth |-> None, cpu_avg |-> None, max_disk |-> None, cur |-> None,
     cpu_pwm |-> None, cpu_stage |-> NoneStr, disk_pwm |-> None,
     disk_stage |-> NoneStr, raw |-> None, wrote |-> None, force |-> None]

\* what the ports returned to the last _read_temps
NoSample == [cpu |-> None, disk |-> <<>>, rpm |-> None, pwm |-> None]

NoPushes == [cpu |-> FALSE, disks |-> {}]

\* the engine as one value: the fields a control cycle reads and writes
Eng ==
    [config |-> config, disks |-> disks, cpu_temp_history |-> cpu_temp_history,
     disk_temp_history |-> disk_temp_history, warmup_counter |-> warmup_counter,
     is_warmed_up |-> is_warmed_up, last_alert_time_cpu |-> last_alert_time_cpu,
     last_alert_time_disk |-> last_alert_time_disk, status |-> status,
     pwm_file |-> pwm_file, obs |-> obs, pushes |-> pushes]

SetEng(e) ==
    /\ config' = e.config
    /\ disks' = e.disks
    /\ cpu_temp_history' = e.cpu_temp_history
    /\ disk_temp_history' = e.disk_temp_history
    /\ warmup_counter' = e.warmup_counter
    /\ is_warmed_up' = e.is_warmed_up
    /\ last_alert_time_cpu' = e.last_alert_time_cpu
    /\ last_alert_time_disk' = e.last_alert_time_disk
    /\ status' = e.status
    /\ pwm_file' = e.pwm_file
    /\ obs' = e.obs
    /\ pushes' = e.pushes

(***************************************************************************)
(* Ports                                                                   *)
(***************************************************************************)
\* set_pwm: clamp, then write when the file is writable (ok)
ClampPwm_off(value) == value

ClampPwm(value) == Max(PwmMin, Min(PwmMax, value))

set_pwm(file, value, ok) == IF ok THEN ClampPwm(value) ELSE file

(***************************************************************************)
(* Histories                                                               *)
(***************************************************************************)
calc_avg_unfiltered(history) ==
    IF history # <<>> THEN SumSeq(history) \div Len(history) ELSE None

calc_avg(history) ==
    LET valid == SelectSeq(history, LAMBDA t : t # None /\ t > 0)
    IN  IF valid # <<>> THEN SumSeq(valid) \div Len(valid) ELSE None

\* while len(h) > history_size: h.pop(0)
Evict(h, history_size) ==
    IF Len(h) > history_size
    THEN SubSeq(h, Len(h) - Max(history_size, 0) + 1, Len(h))
    ELSE h

\* lines 624-629: the CPU history after one read
CpuHistoryAfter(h, temp, history_size) ==
    IF temp # None THEN Evict(Append(h, temp), history_size) ELSE h

\* lines 643-652: one disk's history after one read
DiskHistoryAfter(h, temp, history_size) ==
    IF temp # None THEN Evict(Append(h, temp), history_size) ELSE <<>>

\* lines 657-660: the highest average among the active disks
MaxActiveAvg_all(dks, avgs) ==
    LET act == {d \in DOMAIN dks : avgs[d] # None}
    IN  IF act = {} THEN None
        ELSE CHOOSE m \in {avgs[d] : d \in act} : \A d \in act : avgs[d] <= m

MaxActiveAvg(dks, avgs) ==
    LET act == {d \in DOMAIN dks : dks[d].active /\ avgs[d] # None}
    IN  IF act = {} THEN None
        ELSE CHOOSE m \in {avgs[d] : d \in act} : \A d \in act : avgs[d] <= m

\* only the selected disks are sampled
ReadTempsF_selected(e, cpu_temp, dtemp, fan_rpm, current_pwm, ts) ==
    LET history_size == e.config.temp_history_size
        ids == DOMAIN e.disks
        cpuH == CpuHistoryAfter(e.cpu_temp_history, cpu_temp, history_size)
        dH == [d \in DiskIds |->
                 IF d \in ids /\ e.disks[d].active
                 THEN DiskHistoryAfter(e.disk_temp_history[d], dtemp[d], history_size)
                 ELSE e.disk_temp_history[d]]
        avgs == [d \in ids |-> calc_avg(dH[d])]
    IN  [e EXCEPT
           !.cpu_temp_history = cpuH,
           !.disk_temp_history = dH,
           !.disks = [d \in ids |-> [e.disks[d] EXCEPT !.temp = dtemp[d]]],
           !.status = [e.status EXCEPT
                         !.cpu_temp = cpu_temp,
                         !.cpu_avg_temp = calc_avg(cpuH),
                         !.disk_temps = [d \in ids |-> dtemp[d]],
                         !.disk_avg_temps = avgs,
                         !.max_disk_temp = MaxActiveAvg(e.disks, avgs),
                         !.fan_rpm = fan_rpm,
                         !.current_pwm = current_pwm,
                         !.last_update = ts]]

\* _read_temps: e is the engine, the other arguments are what the ports return
ReadTempsF(e, cpu_temp, dtemp, fan_rpm, current_pwm, ts) ==
    LET history_size == e.config.temp_history_size
        ids == DOMAIN e.disks
        cpuH == CpuHistoryAfter(e.cpu_temp_history, cpu_temp, history_size)
        dH == [d \in DiskIds |->
                 IF d \in ids
                 THEN DiskHistoryAfter(e.disk_temp_history[d], dtemp[d], history_size)
                 ELSE e.disk_temp_history[d]]
        avgs == [d \in ids |-> calc_avg(dH[d])]
    IN  [e EXCEPT
           !.cpu_temp_history = cpuH,
           !.disk_temp_history = dH,
           !.disks = [d \in ids |-> [e.disks[d] EXCEPT !.temp = dtemp[d]]],
           !.status = [e.status EXCEPT
                         !.cpu_temp = cpu_temp,
                         !.cpu_avg_temp = calc_avg(cpuH),
                         !.disk_temps = [d \in ids |-> dtemp[d]],
                         !.disk_avg_temps = avgs,
                         !.max_disk_temp = MaxActiveAvg(e.disks, avgs),
                         !.fan_rpm = fan_rpm,
                         !.current_pwm = current_pwm,
                         !.last_update = ts]]

(***************************************************************************)
(* Alerts                                                                  *)
(***************************************************************************)
\* self.last_alert_time_disk.get(disk_id, 0)
LastDiskAlert(lad, d) == IF lad[d] = None THEN 0 ELSE lad[d]

CpuAlertFires_unthrottled(cfg, st, lac, current_time) ==
    /\ st.cpu_avg_temp # None
    /\ st.cpu_avg_temp # 0
    /\ st.cpu_avg_temp >= cfg.cpu_alert_temp

\* lines 768-774: the CPU alert fires
CpuAlertFires(cfg, st, lac, current_time) ==
    /\ st.cpu_avg_temp # None
    /\ st.cpu_avg_temp # 0
    /\ st.cpu_avg_temp >= cfg.cpu_alert_temp
    /\ current_time - lac >= cfg.alert_interval

AlertDisks_oneclock(cfg, st, lad, current_time) ==
    {d \in DOMAIN st.disk_avg_temps :
        /\ st.disk_avg_temps[d] # None
        /\ st.disk_avg_temps[d] # 0
        /\ st.disk_avg_temps[d] >= cfg.disk_alert_temp
        /\ \A o \in DOMAIN st.disk_avg_temps :
              current_time - LastDiskAlert(lad, o) >= cfg.alert_interval}

\* lines 776-784: the disks listed in this cycle's message
AlertDisks(cfg, st, lad, current_time) ==
    {d \in DOMAIN st.disk_avg_temps :
        /\ st.disk_avg_temps[d] # None
        /\ st.disk_avg_temps[d] # 0
        /\ st.disk_avg_temps[d] >= cfg.disk_alert_temp
        /\ current_time - LastDiskAlert(lad, d) >= cfg.alert_interval}

check_temp_alert(e, current_time) ==
    IF ~e.config.alert_enabled THEN e
    ELSE
    LET cpu_fires == CpuAlertFires(e.config, e.status, e.last_alert_time_cpu, current_time)
        alert_disks == AlertDisks(e.config, e.status, e.last_alert_time_disk, current_time)
    IN  [e EXCEPT
           !.last_alert_time_cpu = IF cpu_fires THEN current_time ELSE @,
           !.last_alert_time_disk =
               [d \in DiskIds |-> IF d \in alert_disks THEN current_time ELSE @[d]],
           !.pushes = [cpu |-> cpu_fires, disks |-> alert_disks]]

(***************************************************************************)
(* The control cycle after _read_temps                                     *)
(***************************************************************************)
\* min(100, int(warmup_counter / temp_history_size * 100)), temp_history_size # 0
WarmupProgress(counter, history_size) ==
    Min(100, IF history_size > 0
             THEN (counter * 100) \div history_size
             ELSE 0 - ((counter * 100) \div (0 - history_size)))

WarmupReached_early(counter, history_size) == counter + 1 >= history_size

\* line 687: the warm-up is over
WarmupReached(counter, history_size) == counter >= history_size

\* lines 704-705
HasTemp(avg) == avg # None /\ avg > 0

NoTempData_either(has_cpu_temp, has_disk_temp) == ~has_cpu_temp \/ ~has_disk_temp

\* line 708
NoTempData(has_cpu_temp, has_disk_temp) == ~has_cpu_temp /\ ~has_disk_temp

SelectTarget_strict(cpu_pwm, cpu_stage, disk_pwm, disk_stage) ==
    IF cpu_pwm > disk_pwm
    THEN [target_pwm |-> cpu_pwm, trigger_source |-> "CPU", trigger_stage |-> cpu_stage]
    ELSE [target_pwm |-> disk_pwm, trigger_source |-> "Disk", trigger_stage |-> disk_stage]

\* lines 729-737: the larger demand wins, the CPU on a tie
SelectTarget(cpu_pwm, cpu_stage, disk_pwm, disk_stage) ==
    IF cpu_pwm >= disk_pwm
    THEN [target_pwm |-> cpu_pwm, trigger_source |-> "CPU", trigger_stage |-> cpu_stage]
    ELSE [target_pwm |-> disk_pwm, trigger_source |-> "Disk", trigger_stage |-> disk_stage]

ApplyThreshold_wide(target_pwm, current_pwm, threshold) ==
    IF current_pwm # None /\ threshold > 0 /\ Abs(target_pwm - current_pwm) < 2 * threshold
    THEN current_pwm
    ELSE target_pwm

ApplyThreshold_off(target_pwm, current_pwm, threshold) == target_pwm

ApplyThreshold_inclusive(target_pwm, current_pwm, threshold) ==
    IF current_pwm # None /\ threshold > 0 /\ Abs(target_pwm - current_pwm) <= threshold
    THEN current_pwm
    ELSE target_pwm

\* lines 740-743: the PWM change threshold
ApplyThreshold(target_pwm, current_pwm, threshold) ==
    IF current_pwm # None /\ threshold > 0 /\ Abs(target_pwm - current_pwm) < threshold
    THEN current_pwm
    ELSE target_pwm

SafetyF_always(e, ok) ==
    [e EXCEPT
       !.status = [@ EXCEPT !.target_pwm = SafePwm, !.trigger_source = "Safety",
                            !.trigger_stage = "warning"],
       !.pwm_file = set_pwm(@, SafePwm, ok),
       !.obs = [NoObs EXCEPT !.kind = "safety", !.wrote = SafePwm]]

\* lines 707-717: the safety fallback
SafetyF(e, ok) ==
    LET current_pwm == e.status.current_pwm
    IN  [e EXCEPT
           !.status = [@ EXCEPT !.target_pwm = SafePwm, !.trigger_source = "Safety",
                                !.trigger_stage = "warning"],
           !.pwm_file = IF current_pwm # SafePwm THEN set_pwm(@, SafePwm, ok) ELSE @,
           !.obs = [NoObs EXCEPT !.kind = "safety",
                                 !.wrote = IF current_pwm # SafePwm THEN SafePwm ELSE None]]

\* lines 720-727: one side's curve result, (0, "") without data
Demand(has_temp, avg, cfg, is_cpu) ==
    IF has_temp THEN calculate_pwm(avg, cfg, is_cpu) ELSE <<0, "">>

\* the status follows the actuator: nothing is published when the write fails
NormalWrite_onsuccess(e, cpu, disk, sel, target_pwm, current_pwm, ok, current_time) ==
    check_temp_alert(
        [e EXCEPT
           !.pwm_file = IF target_pwm # current_pwm THEN set_pwm(@, target_pwm, ok)
                        ELSE @,
           !.status = IF target_pwm # current_pwm /\ ~ok THEN @
                      ELSE [@ EXCEPT !.target_pwm = target_pwm,
                                     !.trigger_source = sel.trigger_source,
                                     !.trigger_stage = sel.trigger_stage],
           !.obs = [NoObs EXCEPT
                      !.kind = "normal", !.cpu_pwm = cpu[1], !.cpu_stage = cpu[2],
                      !.disk_pwm = disk[1], !.disk_stage = disk[2],
                      !.raw = sel.target_pwm,
                      !.wrote = IF target_pwm # current_pwm THEN target_pwm ELSE None]],
        current_time)

\* lines 745-756: write, status, alerts
NormalWrite(e, cpu, disk, sel, target_pwm, current_pwm, ok, current_time) ==
    check_temp_alert(
        [e EXCEPT
           !.pwm_file = IF target_pwm # current_pwm THEN set_pwm(@, target_pwm, ok)
                        ELSE @,
           !.status = [@ EXCEPT !.target_pwm = target_pwm,
                                !.trigger_source = sel.trigger_source,
                                !.trigger_stage = sel.trigger_stage],
           !.obs = [NoObs EXCEPT
                      !.kind = "normal", !.cpu_pwm = cpu[1], !.cpu_stage = cpu[2],
                      !.disk_pwm = disk[1], !.disk_stage = disk[2],
                      !.raw = sel.target_pwm,
                      !.wrote = IF target_pwm # current_pwm THEN target_pwm ELSE None]],
        current_time)

\* lines 739-743: the threshold applied to the selected target
NormalSelected(e, cpu, disk, sel, ok, current_time) ==
    NormalWrite(e, cpu, disk, sel,
                ApplyThreshold(sel.target_pwm, e.status.current_pwm,
                               e.config.pwm_change_threshold),
                e.status.current_pwm, ok, current_time)

\* lines 729-737: the selection between the two sides
NormalDemands(e, cpu, disk, ok, current_time) ==
    NormalSelected(e, cpu, disk, SelectTarget(cpu[1], cpu[2], disk[1], disk[2]),
                   ok, current_time)

\* lines 719-756: curve computation, selection, threshold, write, status, alerts
NormalF(e, has_cpu_temp, has_disk_temp, ok, current_time) ==
    NormalDemands(e,
                  Demand(has_cpu_temp, e.status.cpu_avg_temp, e.config, TRUE),
                  Demand(has_disk_temp, e.status.max_disk_temp, e.config, FALSE),
                  ok, current_time)

\* lines 703-756: safety fallback or normal computation
DataF(e, has_cpu_temp, has_disk_temp, ok, current_time) ==
    IF NoTempData(has_cpu_temp, has_disk_temp)
    THEN SafetyF(e, ok)
    ELSE NormalF(e, has_cpu_temp, has_disk_temp, ok, current_time)

ControlF_always(e, ok, current_time) ==
    DataF(e, HasTemp(e.status.cpu_avg_temp), HasTemp(e.status.max_disk_temp),
          ok, current_time)

\* lines 696-756: the cycle once the warm-up gate is passed
ControlF(e, ok, current_time) ==
    IF ~e.config.enabled
    THEN [e EXCEPT !.obs = [NoObs EXCEPT !.kind = "disabled"]]
    ELSE DataF(e, HasTemp(e.status.cpu_avg_temp), HasTemp(e.status.max_disk_temp),
               ok, current_time)

\* the gate taken again in every cycle from the counter
CycleF_regate(e, ok, current_time) ==
    IF e.warmup_counter >= e.config.temp_history_size
    THEN ControlF([e EXCEPT !.is_warmed_up = TRUE], ok, current_time)
    ELSE [e EXCEPT !.is_warmed_up = FALSE, !.warmup_counter = @ + 1,
                   !.obs = [NoObs EXCEPT !.kind = "warmup"]]

\* lines 683-685: the counter and the progress of the warm-up
WarmupCount(e) ==
    [e EXCEPT !.warmup_counter = @ + 1,
              !.status = [@ EXCEPT !.warmup_progress =
                              WarmupProgress(e.warmup_counter + 1,
                                             e.config.temp_history_size)]]

\* lines 688-690: the warm-up is complete
WarmupDone(e) ==
    [e EXCEPT !.is_warmed_up = TRUE, !.status = [@ EXCEPT !.is_warmed_up = TRUE]]

\* the gate lets the cycle through: warmed up before, or with this cycle
GatePassed(e) ==
    e.is_warmed_up \/ WarmupReached(e.warmup_counter + 1, e.config.temp_history_size)

\* lines 681-756: _control_cycle after its call of _read_temps
CycleF(e, ok, current_time) ==
    IF ~e.is_warmed_up /\ e.config.temp_history_size = 0
    THEN \* ZeroDivisionError: the cycle ends here, caught by _run_loop
         [e EXCEPT !.warmup_counter = @ + 1, !.obs = [NoObs EXCEPT !.kind = "error"]]
    ELSE IF GatePassed(e)
    THEN ControlF(IF e.is_warmed_up THEN e ELSE WarmupDone(WarmupCount(e)),
                  ok, current_time)
    ELSE [WarmupCount(e) EXCEPT !.obs = [NoObs EXCEPT !.kind = "warmup"]]

\* what the cycle read and left behind, noted in the observation
Observed(e, r) ==
    [r EXCEPT !.obs = [@ EXCEPT !.depth = e.config.temp_history_size,
                                !.cpu_avg = e.status.cpu_avg_temp,
                                !.max_disk = e.status.max_disk_temp,
                                !.cur = e.status.current_pwm,
                                !.force = r.pwm_file]]

\* the cycle together with its observation
DecideF(e, ok, current_time) == Observed(e, CycleF(e, ok, current_time))

(***************************************************************************)
(* Operations                                                              *)
(***************************************************************************)
\* detect_disks: the rebuilt list keeps the selection of config.active_disks
detect_disks_reset(cfg, found) ==
    [d \in found |-> [active |-> FALSE, temp |-> None]]

detect_disks(cfg, found) ==
    [d \in found |-> [active |-> d \in cfg.active_disks, temp |-> None]]

\* FanConfig.update: every key of data the configuration has is assigned
ConfigUpdate(cfg, data) ==
    [k \in DOMAIN cfg |-> IF k \in DOMAIN data THEN data[k] ELSE cfg[k]]

\* start(): nothing happens when already running; t is the new thread
StartF(e) == [e EXCEPT !.warmup_counter = 0, !.is_warmed_up = FALSE]

Start(t) ==
    /\ ~running
    /\ pc[t] = "off"
    /\ \A u \in Threads : pc[u] = "off" => t <= u
    /\ running' = TRUE
    /\ SetEng(StartF(Eng))
    /\ pc' = [pc EXCEPT ![t] = "init"]
    /\ cycles' = 0
    /\ depth_fixed' = TRUE
    /\ UNCHANGED <<now, sampled>>

\* stop(): the flag is cleared; the join is a bounded wait
Stop ==
    /\ running' = FALSE
    /\ UNCHANGED <<config, disks, cpu_temp_history, disk_temp_history, warmup_counter,
                   is_warmed_up, last_alert_time_cpu, last_alert_time_disk, status, pc,
                   pwm_file, now, obs, pushes, cycles, depth_fixed, sampled>>

\* _run_loop before the while: module load, manual mode, detect_disks
LoopInitF(e, found) == [e EXCEPT !.disks = detect_disks(e.config, found)]

LoopInit(t, found) ==
    /\ pc[t] = "init"
    /\ SetEng(LoopInitF(Eng, found))
    /\ pc' = [pc EXCEPT ![t] = "loop"]
    /\ UNCHANGED <<running, now, cycles, depth_fixed, sampled>>

\* _run_loop: while self.running is false the thread ends
LoopExit(t) ==
    /\ pc[t] = "loop"
    /\ ~running
    /\ pc' = [pc EXCEPT ![t] = "off"]
    /\ UNCHANGED <<config, disks, cpu_temp_history, disk_temp_history, warmup_counter,
                   is_warmed_up, last_alert_time_cpu, last_alert_time_disk, status,
                   running, pwm_file, now, obs, pushes, cycles, depth_fixed, sampled>>

Sample(cpu_temp, dtemp, fan_rpm, current_pwm) ==
    [cpu |-> cpu_temp, disk |-> dtemp, rpm |-> fan_rpm, pwm |-> current_pwm]

\* _control_cycle, first half: _read_temps.  pwm_ok: read_pwm could read the file
LoopReadF(e, cpu_temp, dtemp, fan_rpm, pwm_ok, ts) ==
    [ReadTempsF(e, cpu_temp, dtemp, fan_rpm, IF pwm_ok THEN e.pwm_file ELSE None, ts)
       EXCEPT !.obs = NoObs, !.pushes = NoPushes]

\* lines 628-629, 648-649: with a depth below 0 the while loop pops until the
\* list is empty and then pop(0) raises IndexError; this happens at the first
\* reading that is present
ReadRaises(e, cpu_temp, dtemp) ==
    /\ e.config.temp_history_size < 0
    /\ cpu_temp # None \/ \E d \in DOMAIN e.disks : dtemp[d] # None

\* self.disks is in the order of detect_all_disks: d is reached before f
ReachedBefore(d, f) == d = f \/ (d = "Disk1" /\ f = "Disk2")

\* the disk at which the read raises when the CPU reading is absent
RaisingDisk(e, dtemp) ==
    CHOOSE f \in DOMAIN e.disks :
        /\ dtemp[f] # None
        /\ \A d \in DOMAIN e.disks : dtemp[d] # None => ReachedBefore(f, d)

\* what _read_temps leaves behind when it raises: the lists it went through are
\* empty, the disks it reached have their reading, the status is not written
ReadErrorF(e, cpu_temp, dtemp) ==
    IF cpu_temp # None
    THEN [e EXCEPT !.cpu_temp_history = <<>>]
    ELSE [e EXCEPT
            !.disk_temp_history =
                [d \in DiskIds |->
                    IF d \in DOMAIN e.disks /\ ReachedBefore(d, RaisingDisk(e, dtemp))
                    THEN <<>> ELSE e.disk_temp_history[d]],
            !.disks =
                [d \in DOMAIN e.disks |->
                    IF ReachedBefore(d, RaisingDisk(e, dtemp))
                    THEN [e.disks[d] EXCEPT !.temp = dtemp[d]] ELSE e.disks[d]]]

\* lines 820-823: an exception of the cycle is caught and logged; the thread
\* goes on to the sleep and the next turn of the while loop
AfterRaise_uncaught == "off"

AfterRaise == "loop"

\* _control_cycle whose _read_temps raises: the cycle is over
LoopReadRaises(t, cpu_temp, dtemp) ==
    /\ pc[t] = "loop"
    /\ running
    /\ ReadRaises(Eng, cpu_temp, dtemp)
    /\ SetEng([ReadErrorF(Eng, cpu_temp, dtemp)
                 EXCEPT !.obs = [NoObs EXCEPT !.kind = "error",
                                              !.depth = config.temp_history_size],
                        !.pushes = NoPushes])
    /\ pc' = [pc EXCEPT ![t] = AfterRaise]
    /\ cycles' = Min(cycles + 1, MaxCycles)
    /\ UNCHANGED <<running, now, depth_fixed, sampled>>

\* the loop that does not look at the flag before a cycle
LoopRead_unchecked(t, cpu_temp, dtemp, fan_rpm, pwm_ok) ==
    /\ pc[t] = "loop"
    /\ ~ReadRaises(Eng, cpu_temp, dtemp)
    /\ SetEng(LoopReadF(Eng, cpu_temp, dtemp, fan_rpm, pwm_ok, now))
    /\ sampled' = Sample(cpu_temp, dtemp, fan_rpm, IF pwm_ok THEN pwm_file ELSE None)
    /\ pc' = [pc EXCEPT ![t] = "decide"]
    /\ UNCHANGED <<running, now, cycles, depth_fixed>>

LoopRead(t, cpu_temp, dtemp, fan_rpm, pwm_ok) ==
    /\ pc[t] = "loop"
    /\ running
    /\ ~ReadRaises(Eng, cpu_temp, dtemp)
    /\ SetEng(LoopReadF(Eng, cpu_temp, dtemp, fan_rpm, pwm_ok, now))
    /\ sampled' = Sample(cpu_temp, dtemp, fan_rpm, IF pwm_ok THEN pwm_file ELSE None)
    /\ pc' = [pc EXCEPT ![t] = "decide"]
    /\ UNCHANGED <<running, now, cycles, depth_fixed>>

\* _control_cycle, second half.  ok: set_pwm could write the file
LoopDecide(t, ok) ==
    /\ pc[t] = "decide"
    /\ SetEng(DecideF(Eng, ok, now))
    /\ pc' = [pc EXCEPT ![t] = IF obs'.kind = "error" THEN AfterRaise ELSE "loop"]
    /\ cycles' = Min(cycles + 1, MaxCycles)
    /\ UNCHANGED <<running, now, depth_fixed, sampled>>

\* refresh(): _read_temps in the caller's thread, then get_status
Refresh(cpu_temp, dtemp, fan_rpm, pwm_ok) ==
    /\ ~ReadRaises(Eng, cpu_temp, dtemp)
    /\ SetEng(ReadTempsF(Eng, cpu_temp, dtemp, fan_rpm,
                         IF pwm_ok THEN pwm_file ELSE None, now))
    /\ sampled' = Sample(cpu_temp, dtemp, fan_rpm, IF pwm_ok THEN pwm_file ELSE None)
    /\ UNCHANGED <<running, pc, now, cycles, depth_fixed>>

\* update_config(data)
UpdateConfig(data) ==
    /\ config' = ConfigUpdate(config, data)
    /\ depth_fixed' = (depth_fixed /\ config'.temp_history_size = config.temp_history_size)
    /\ UNCHANGED <<disks, cpu_temp_history, disk_temp_history, warmup_counter,
                   is_warmed_up, last_alert_time_cpu, last_alert_time_disk, status,
                   running, pc, pwm_file, now, obs, pushes, cycles, sampled>>

\* set_active_disks(disk_ids)
SetActiveDisksF(e, disk_ids) ==
    [e EXCEPT !.config = [e.config EXCEPT !.active_disks = disk_ids],
              !.disks = [d \in DOMAIN e.disks |->
                           [e.disks[d] EXCEPT !.active = d \in disk_ids]]]

SetActiveDisks(disk_ids) ==
    /\ SetEng(SetActiveDisksF(Eng, disk_ids))
    /\ UNCHANGED <<running, pc, now, cycles, depth_fixed, sampled>>

\* POST /api/control/toggle
ToggleF(e, enabled) == [e EXCEPT !.config = [e.config EXCEPT !.enabled = enabled]]

Toggle(enabled) ==
    /\ SetEng(ToggleF(Eng, enabled))
    /\ UNCHANGED <<running, pc, now, cycles, depth_fixed, sampled>>

\* POST /api/disks/refresh
DetectDisks(found) ==
    /\ disks' = detect_disks(config, found)
    /\ UNCHANGED <<config, cpu_temp_history, disk_temp_history, warmup_counter,
                   is_warmed_up, last_alert_time_cpu, last_alert_time_disk, status,
                   running, pc, pwm_file, now, obs, pushes, cycles, depth_fixed, sampled>>

\* the override that also takes the control away from the loop
SetManualPwm_takesover(value, ok) ==
    /\ pwm_file' = set_pwm(pwm_file, value, ok)
    /\ config' = [config EXCEPT !.enabled = FALSE]
    /\ UNCHANGED <<disks, cpu_temp_history, disk_temp_history, warmup_counter,
                   is_warmed_up, last_alert_time_cpu, last_alert_time_disk, status,
                   running, pc, now, obs, pushes, cycles, depth_fixed, sampled>>

\* set_manual_pwm(value)
SetManualPwm(value, ok) ==
    /\ pwm_file' = set_pwm(pwm_file, value, ok)
    /\ UNCHANGED <<config, disks, cpu_temp_history, disk_temp_history, warmup_counter,
                   is_warmed_up, last_alert_time_cpu, last_alert_time_disk, status,
                   running, pc, now, obs, pushes, cycles, depth_fixed, sampled>>

\* time passes
Tick ==
    /\ now < Epoch + MaxTime
    /\ now' = now + 1
    /\ UNCHANGED <<config, disks, cpu_temp_history, disk_temp_history, warmup_counter,
                   is_warmed_up, last_alert_time_cpu, last_alert_time_disk, status,
                   running, pc, pwm_file, obs, pushes, cycles, depth_fixed, sampled>>

(***************************************************************************)
(* Configurations and port values of the bounded model                     *)
(***************************************************************************)
\* the curve of the specification's example, stored out of order
ExampleCurve ==
    <<[temp |-> 40, pwm |-> 50], [temp |-> 20, pwm |-> 20], [temp |-> 80, pwm |-> 255]>>

\* a disk curve that lets the fan stop below 20 degrees
QuietDiskCurve ==
    <<[temp |-> 20, pwm |-> 0], [temp |-> 40, pwm |-> 50], [temp |-> 60, pwm |-> 255]>>

HistSizes == 1..MaxHist

BaseConfig ==
    [enabled |-> TRUE, temp_history_size |-> 1, pwm_change_threshold |-> 0,
     use_curve_mode |-> TRUE, cpu_curve |-> ExampleCurve, disk_curve |-> QuietDiskCurve,
     active_disks |-> {}, alert_enabled |-> FALSE, cpu_alert_temp |-> 62,
     disk_alert_temp |-> 42, alert_interval |-> 2]

CpuReadings == {None, 30, 60}

DiskReadings(d) == IF d = "Disk1" THEN {None, 20} ELSE {None, 50}

DiskReads(ids) == {f \in [ids -> {None, 20, 50}] : \A d \in ids : f[d] \in DiskReadings(d)}

RpmReadings == {None, 1200}

\* the state after FanController.__init__ with configuration cfg
InitWith(cfg) ==
    /\ config = cfg
    /\ disks = <<>>
    /\ cpu_temp_history = <<>>
    /\ disk_temp_history = [d \in DiskIds |-> <<>>]
    /\ warmup_counter = 0
    /\ is_warmed_up = FALSE
    /\ last_alert_time_cpu = 0
    /\ last_alert_time_disk = [d \in DiskIds |-> None]
    /\ status = InitStatus
    /\ running = FALSE
    /\ pc = [t \in Threads |-> "off"]
    /\ pwm_file \in InitialPwm
    /\ now = Epoch
    /\ obs = NoObs
    /\ pushes = NoPushes
    /\ cycles = 0
    /\ depth_fixed = TRUE
    /\ sampled = NoSample
    /\ prev = NoObs
    /\ lock = NoneStr

(***************************************************************************)
(* Spec: the control loop with reliable ports; between two cycles the API  *)
(* changes the selection of disks and the enabled flag                     *)
(***************************************************************************)
\* no control cycle is in flight
BetweenCycles == \A t \in Threads : pc[t] # "decide"

Init ==
    /\ \E n \in HistSizes, act \in SUBSET DiskIds :
          InitWith([BaseConfig EXCEPT !.temp_history_size = n, !.active_disks = act])
    /\ shadow = None
    /\ NoCall

\* the one engine of the specification; no earlier cycle is kept
OneEngine == UNCHANGED <<prev, shadow, call, ret, lock>>

Next ==
    \/ \E t \in Threads : Start(t) /\ OneEngine
    \/ \E t \in Threads : LoopInit(t, DiskIds) /\ OneEngine
    \/ \E t \in Threads, c \in CpuReadings, dt \in DiskReads(DOMAIN disks),
          rpm \in RpmReadings \ {None} : LoopRead(t, c, dt, rpm, TRUE) /\ OneEngine
    \/ \E t \in Threads : LoopDecide(t, TRUE) /\ OneEngine
    \/ \E b \in BOOLEAN : BetweenCycles /\ Toggle(b) /\ OneEngine
    \/ \E ids \in SUBSET DiskIds : BetweenCycles /\ SetActiveDisks(ids) /\ OneEngine

Spec == Init /\ [][Next]_vars

(***************************************************************************)
(* Properties of the control cycle (Spec)                                  *)
(***************************************************************************)
\* a loop thread has just finished a cycle
DecideStep == \E t \in Threads : pc[t] = "decide" /\ pc'[t] = "loop"

\* the cycle passed the warm-up gate and the enabled check
Controlled(o) == o.kind \in {"safety", "normal"}

NoActiveDiskAverage ==
    \A d \in DOMAIN disks : disks[d].active => calc_avg(disk_temp_history[d]) = None

\* C1: a cycle that runs warmed up and enabled takes the safety fallback exactly
\* when the CPU average is absent and no active disk has an average; the fallback
\* publishes target 128, source "Safety", stage "warning", evaluates no curve,
\* applies no threshold, and writes 128 unless 128 was read from the actuator.
C1_SafetyFallback ==
    /\ \A t \in Threads :
          pc[t] = "decide" =>
             /\ status.cpu_avg_temp = calc_avg(cpu_temp_history)
             /\ (status.max_disk_temp = None <=> NoActiveDiskAverage)
    /\ Controlled(obs) =>
          /\ obs.kind = "safety" <=> (obs.cpu_avg = None /\ obs.max_disk = None)
          /\ obs.kind = "safety" =>
                /\ status.target_pwm = SafePwm
                /\ status.trigger_source = "Safety"
                /\ status.trigger_stage = "warning"
                /\ obs.cpu_pwm = None /\ obs.disk_pwm = None /\ obs.raw = None
                /\ obs.wrote = (IF obs.cur = SafePwm THEN None ELSE SafePwm)
                /\ obs.force = SafePwm

\* a fallback cycle that found 128 already on the actuator and wrote nothing,
\* while a disk that is not selected has an average
C1_Witness ==
    /\ obs.kind = "safety"
    /\ obs.cur = SafePwm
    /\ obs.wrote = None
    /\ pwm_file = SafePwm
    /\ \E d \in DOMAIN disks : ~disks[d].active /\ calc_avg(disk_temp_history[d]) # None

\* C2: in an enabled, warmed-up engine a cycle in which the CPU read and the read
\* of every active disk are absent ends in the safety fallback (128, "Safety").
C2_TotalLossContained ==
    [][(/\ DecideStep
        /\ Controlled(obs')
        /\ sampled.cpu = None
        /\ \A d \in DOMAIN disks : disks[d].active => sampled.disk[d] = None)
       => (/\ obs'.kind = "safety"
           /\ status'.target_pwm = SafePwm
           /\ status'.trigger_source = "Safety")]_vars

\* C3: a cycle whose read of a source is absent leaves that source's window empty
\* and its average "no data", for the CPU and for every disk.
C3_AbsentReadClearsWindow ==
    /\ sampled.cpu = None => (cpu_temp_history = <<>> /\ status.cpu_avg_temp = None)
    /\ \A d \in DOMAIN sampled.disk :
          sampled.disk[d] = None =>
             (disk_temp_history[d] = <<>> /\ status.disk_avg_temps[d] = None)

\* C7: in a normal cycle with both a CPU average and an active-disk maximum, the
\* target before the threshold is max(cpu_pwm, disk_pwm) and source and stage are
\* those of the larger side, the CPU's on a tie.
C7_LargerDemandWins ==
    (obs.kind = "normal" /\ obs.cpu_avg # None /\ obs.max_disk # None) =>
        LET c == calculate_pwm(obs.cpu_avg, config, TRUE)
            d == calculate_pwm(obs.max_disk, config, FALSE)
        IN  /\ obs.raw = Max(c[1], d[1])
            /\ status.trigger_source = (IF c[1] >= d[1] THEN "CPU" ELSE "Disk")
            /\ status.trigger_stage = (IF c[1] >= d[1] THEN c[2] ELSE d[2])

\* a normal cycle in which both sides ask for the same PWM and the CPU is reported
C7_Witness ==
    /\ obs.kind = "normal"
    /\ obs.cpu_avg # None
    /\ obs.max_disk # None
    /\ obs.cpu_pwm = obs.disk_pwm
    /\ obs.raw = obs.cpu_pwm
    /\ status.trigger_source = "CPU"

\* C8: in a normal cycle with exactly one of the two averages, target, source and
\* stage are those of that side, for every curve with PWM values in 0..255.
C8_SingleSideReported ==
    /\ (obs.kind = "normal" /\ obs.cpu_avg = None /\ obs.max_disk # None) =>
          LET d == calculate_pwm(obs.max_disk, config, FALSE)
          IN  /\ obs.raw = d[1]
              /\ status.trigger_source = "Disk"
              /\ status.trigger_stage = d[2]
    /\ (obs.kind = "normal" /\ obs.cpu_avg # None /\ obs.max_disk = None) =>
          LET c == calculate_pwm(obs.cpu_avg, config, TRUE)
          IN  /\ obs.raw = c[1]
              /\ status.trigger_source = "CPU"
              /\ status.trigger_stage = c[2]

(***************************************************************************)
(* SpecLife: start, stop and restart of the loop, the history depth        *)
(* changed and the control switched on and off at any moment; one disk     *)
(***************************************************************************)
NoLiveThread == \A t \in Threads : pc[t] = "off"

InitLife ==
    /\ \E n \in HistSizes :
          InitWith([BaseConfig EXCEPT !.temp_history_size = n, !.active_disks = {"Disk1"}])
    /\ shadow = None
    /\ NoCall

NextLife ==
    \/ \E t \in Threads : NoLiveThread /\ Start(t) /\ OneEngine
    \/ Stop /\ OneEngine
    \/ \E t \in Threads : LoopInit(t, {"Disk1"}) /\ OneEngine
    \/ \E t \in Threads : LoopExit(t) /\ OneEngine
    \/ \E t \in Threads, c \in {None, 30}, dt \in DiskReads(DOMAIN disks),
          rpm \in RpmReadings : LoopRead(t, c, dt, rpm, TRUE) /\ OneEngine
    \/ \E t \in Threads : LoopDecide(t, TRUE) /\ OneEngine
    \/ \E n \in HistSizes : UpdateConfig([temp_history_size |-> n]) /\ OneEngine
    \/ \E b \in BOOLEAN : Toggle(b) /\ OneEngine

SpecLife == InitLife /\ [][NextLife]_vars

\* a loop thread has just sampled
ReadStep == \E t \in Threads : pc[t] = "loop" /\ pc'[t] = "decide"

TargetUnchanged ==
    /\ status'.target_pwm = status.target_pwm
    /\ status'.trigger_source = status.trigger_source
    /\ status'.trigger_stage = status.trigger_stage

\* C4: after start(), with the history depth N >= 1 unchanged, the cycles 1..N-1
\* write nothing to the actuator and publish no target; cycle N is the first one
\* past the warm-up gate.
C4_WarmupGate ==
    [][(DecideStep /\ depth_fixed) =>
          /\ cycles' < config.temp_history_size =>
                /\ obs'.kind = "warmup"
                /\ ~is_warmed_up'
                /\ obs'.wrote = None
                /\ pwm_file' = pwm_file
                /\ TargetUnchanged
          /\ cycles' = config.temp_history_size =>
                /\ ~is_warmed_up
                /\ is_warmed_up'
                /\ obs'.kind \in {"disabled", "safety", "normal"}]_vars

\* with depth 2 or more, cycle N computed a target and wrote it
C4_Witness ==
    /\ depth_fixed
    /\ config.temp_history_size >= 2
    /\ cycles = config.temp_history_size
    /\ obs.kind = "normal"
    /\ obs.wrote # None
    /\ pwm_file = obs.wrote

\* C5: once warmed up the engine stays warmed up in every later cycle, also after
\* the history depth is changed and after absent readings; only start() (which
\* needs a stop() before it) brings the warm-up back.
C5_WarmupPermanent ==
    [][/\ (is_warmed_up /\ ~is_warmed_up') => (~running /\ running')
       /\ (DecideStep /\ is_warmed_up) =>
             (is_warmed_up' /\ obs'.kind \in {"disabled", "safety", "normal"})]_vars

\* a warmed-up engine whose depth was raised above the counter decides normally
\* in a cycle whose CPU read was absent
C5_Witness ==
    /\ is_warmed_up
    /\ Controlled(obs)
    /\ warmup_counter < obs.depth
    /\ sampled.cpu = None

\* C6: while the control is disabled a cycle still reads every sensor, updates the
\* histories and publishes temperatures, fan RPM and current PWM, but writes
\* nothing and leaves target, source and stage as they were.
C6_DisabledStillSamples ==
    [][/\ (ReadStep /\ ~config.enabled) =>
             /\ DOMAIN sampled'.disk = DOMAIN disks
             /\ status'.cpu_temp = sampled'.cpu
             /\ status'.disk_temps = sampled'.disk
             /\ status'.fan_rpm = sampled'.rpm
             /\ status'.current_pwm = sampled'.pwm
             /\ sampled'.pwm = pwm_file
             /\ sampled'.cpu # None =>
                   cpu_temp_history'[Len(cpu_temp_history')] = sampled'.cpu
             /\ status'.cpu_avg_temp = calc_avg(cpu_temp_history')
             /\ \A d \in DOMAIN disks :
                   /\ sampled'.disk[d] # None =>
                         disk_temp_history'[d][Len(disk_temp_history'[d])] = sampled'.disk[d]
                   /\ status'.disk_avg_temps[d] = calc_avg(disk_temp_history'[d])
       /\ (DecideStep /\ ~config.enabled) =>
             /\ obs'.kind \in {"warmup", "disabled"}
             /\ obs'.wrote = None
             /\ pwm_file' = pwm_file
             /\ TargetUnchanged]_vars

\* a disabled cycle after a target had been published: fresh readings are in
\* status, the target is the old one
C6_Witness ==
    /\ obs.kind = "disabled"
    /\ ~config.enabled
    /\ status.target_pwm # None
    /\ sampled.cpu # None
    /\ status.cpu_temp = sampled.cpu
    /\ status.fan_rpm # None
    /\ status.target_pwm # calculate_pwm(status.cpu_avg_temp, config, TRUE)[1]

(***************************************************************************)
(* SpecHyst: the PWM change threshold over consecutive cycles.  The CPU is *)
(* the only source, depth 1; reads and writes of the PWM file may fail and *)
(* the manual override writes between cycles.                              *)
(***************************************************************************)
Thresholds == {0, 120}

ManualValues == {100}

InitHyst ==
    /\ \E th \in Thresholds : InitWith([BaseConfig EXCEPT !.pwm_change_threshold = th])
    /\ shadow = None
    /\ NoCall

NextHyst ==
    \/ \E t \in Threads : NoLiveThread /\ Start(t) /\ OneEngine
    \/ \E t \in Threads : LoopInit(t, {}) /\ OneEngine
    \/ \E t \in Threads, c \in CpuReadings, pwm_ok \in BOOLEAN :
          LoopRead(t, c, <<>>, 1200, pwm_ok) /\ prev' = obs
          /\ UNCHANGED <<shadow, call, ret, lock>>
    \/ \E t \in Threads, ok \in BOOLEAN : LoopDecide(t, ok) /\ OneEngine
    \/ \E v \in ManualValues : BetweenCycles /\ SetManualPwm(v, TRUE) /\ OneEngine

SpecHyst == InitHyst /\ [][NextHyst]_vars

\* the last two cycles were normal cycles, one right after the other, under a
\* threshold above zero, and their raw targets differ by less than the threshold
CloseConsecutiveTargets ==
    /\ BetweenCycles
    /\ \E t \in Threads : pc[t] = "loop"
    /\ obs.kind = "normal"
    /\ prev.kind = "normal"
    /\ config.pwm_change_threshold > 0
    /\ Abs(obs.raw - prev.raw) < config.pwm_change_threshold

\* the ports worked in both cycles and nothing else wrote the actuator
PortsWorked(o) == o.cur # None /\ (o.wrote # None => o.force = ClampPwm(o.wrote))

\* C10 as stated: with threshold T > 0, two consecutive normal cycles whose raw
\* targets differ by less than T leave the same PWM in force (here even with
\* readable, writable ports and no other writer).
C10_SamePwmBothTimes ==
    (/\ CloseConsecutiveTargets
     /\ PortsWorked(prev)
     /\ PortsWorked(obs)
     /\ obs.cur = prev.force)
    => obs.force = prev.force

\* C10 amended: ... if, in addition, the first cycle left the actuator at its raw
\* target and the second cycle read that value back, then the second cycle writes
\* nothing and the PWM in force after it is the one in force after the first.
C10_SamePwmOnceApplied ==
    (/\ CloseConsecutiveTargets
     /\ prev.force = prev.raw
     /\ obs.cur = prev.force)
    => (obs.wrote = None /\ obs.force = prev.force /\ status.target_pwm = prev.force)

\* two consecutive normal cycles with different raw targets closer than the
\* threshold: the first applied its target, the second kept it
C10_Witness ==
    /\ CloseConsecutiveTargets
    /\ prev.force = prev.raw
    /\ obs.cur = prev.force
    /\ obs.raw # prev.raw
    /\ pwm_file = prev.raw

(***************************************************************************)
(* SpecNI: two engines side by side.  Both start from the same state and   *)
(* get the same configuration, the same calls, the same CPU readings and   *)
(* the same readings of Disk1, the one disk that is ever selected; what    *)
(* Disk2, never selected, reads is chosen separately for each engine.      *)
(* The variables hold the first engine, shadow holds the second.           *)
(***************************************************************************)
Selectable == {"Disk1"}

Unselected == "Disk2"

InitNI ==
    /\ \E act \in SUBSET Selectable :
          InitWith([BaseConfig EXCEPT !.temp_history_size = 2, !.active_disks = act])
    /\ shadow = Eng
    /\ NoCall

\* the second engine takes the step e
Second(e) == shadow' = e /\ UNCHANGED <<prev, call, ret, lock>>

NextNI ==
    \/ \E t \in Threads : NoLiveThread /\ Start(t) /\ Second(StartF(shadow))
    \/ \E t \in Threads : LoopInit(t, DiskIds) /\ Second(LoopInitF(shadow, DiskIds))
    \/ \E t \in Threads, c \in CpuReadings, dt \in DiskReads(DOMAIN disks),
          other \in DiskReadings(Unselected) :
          /\ LoopRead(t, c, dt, 1200, TRUE)
          /\ Second(LoopReadF(shadow, c, [dt EXCEPT ![Unselected] = other],
                              1200, TRUE, now))
    \/ \E t \in Threads : LoopDecide(t, TRUE) /\ Second(DecideF(shadow, TRUE, now))
    \/ \E b \in BOOLEAN : BetweenCycles /\ Toggle(b) /\ Second(ToggleF(shadow, b))
    \/ \E ids \in SUBSET Selectable :
          BetweenCycles /\ SetActiveDisks(ids) /\ Second(SetActiveDisksF(shadow, ids))

SpecNI == InitNI /\ [][NextNI]_vars

\* what the two engines have read from the never selected disk differs
UnselectedDiffers ==
    /\ Unselected \in DOMAIN status.disk_avg_temps
    /\ status.disk_avg_temps[Unselected] # shadow.status.disk_avg_temps[Unselected]

OverCurve ==
    <<[temp |-> 20, pwm |-> 0 - 20], [temp |-> 40, pwm |-> 50], [temp |-> 80, pwm |-> 300]>>

ActThresholds == {0, 20, 117}

ActCpuReadings == {None, 10, 30, 60, 90}

ActManualValues == {0 - 5, 152, 300}

InitAct ==
    /\ \E th \in ActThresholds, cv \in {ExampleCurve, OverCurve} :
          InitWith([BaseConfig EXCEPT !.pwm_change_threshold = th, !.cpu_curve = cv])
    /\ shadow = None
    /\ NoCall

NextAct ==
    \/ \E t \in Threads : NoLiveThread /\ Start(t) /\ OneEngine
    \/ \E t \in Threads : LoopInit(t, {}) /\ OneEngine
    \/ \E t \in Threads, c \in ActCpuReadings, pwm_ok \in BOOLEAN :
          LoopRead(t, c, <<>>, 1200, pwm_ok) /\ OneEngine
    \/ \E t \in Threads, ok \in BOOLEAN : LoopDecide(t, ok) /\ OneEngine
    \/ \E v \in ActManualValues, ok \in BOOLEAN :
          BetweenCycles /\ SetManualPwm(v, ok) /\ OneEngine

SpecAct == InitAct /\ [][NextAct]_vars

\* the threshold suppresses the raw target of the last cycle: the actuator value
\* the cycle read is known and closer to the target than the threshold
Suppressed ==
    /\ obs.cur # None
    /\ config.pwm_change_threshold > 0
    /\ Abs(obs.raw - obs.cur) < config.pwm_change_threshold

\* C11: in a normal cycle, when the threshold is above zero and the new target is
\* closer than the threshold to the PWM value read from the actuator, the cycle
\* keeps that value (nothing is written, target_pwm reports it); otherwise the new
\* target is used unchanged.
C11_HysteresisStep ==
    obs.kind = "normal" =>
        IF Suppressed
        THEN /\ status.target_pwm = obs.cur
             /\ obs.wrote = None
             /\ obs.force = obs.cur
        ELSE status.target_pwm = obs.raw

\* a suppressed target that differs from the value kept
C11_Witness ==
    /\ obs.kind = "normal"
    /\ Suppressed
    /\ obs.raw # obs.cur
    /\ pwm_file = obs.cur

\* a target at exactly the threshold from the value read is used unchanged
C11_WitnessAtThreshold ==
    /\ obs.kind = "normal"
    /\ obs.cur # None
    /\ Abs(obs.raw - obs.cur) = config.pwm_change_threshold
    /\ config.pwm_change_threshold > 0
    /\ obs.wrote = obs.raw

\* C12: a cycle that comes to apply a value (the target after the threshold, or
\* the safety value) calls for a write exactly when that value differs from the
\* actuator value its own sample step read; an unreadable value counts as
\* different.
C12_WriteIffDifferent ==
    obs.kind \in {"normal", "safety"} =>
        /\ obs.cur = sampled.pwm
        /\ (obs.wrote # None) = (status.target_pwm # sampled.pwm)
        /\ obs.wrote # None => obs.wrote = status.target_pwm
        /\ sampled.pwm = None => obs.wrote # None

\* a safety cycle that finds the safety value on the actuator and writes nothing
C12_Witness ==
    /\ obs.kind = "safety"
    /\ sampled.pwm = SafePwm
    /\ obs.wrote = None

\* a normal cycle that could not read the actuator and writes its target
C12_WitnessUnreadable ==
    /\ obs.kind = "normal"
    /\ sampled.pwm = None
    /\ obs.wrote = obs.raw
    /\ pwm_file = ClampPwm(obs.raw)

\* C13: whatever path a value takes to the actuator (normal target, safety value,
\* manual override) and whatever the curve or the caller asks for, the value in
\* the PWM file lies in 0..255.
C13_ActuatorInRange == pwm_file \in PwmMin..PwmMax

\* a cycle asked for more than 255 and the write went through
C13_Witness ==
    /\ obs.kind = "normal"
    /\ obs.wrote # None
    /\ obs.wrote > PwmMax
    /\ obs.cur # PwmMax
    /\ pwm_file = PwmMax

(***************************************************************************)
(* SpecAlert: the alerts, enabled.  The depth is 1 or 2, both disks are    *)
(* detected and Disk1 or both are selected; Disk1 is hot all the time;     *)
(* the clock advances and the control is switched between cycles.          *)
(***************************************************************************)
AlertDepths == {1, 2}

AlertCpuReadings == {30, 70}

AlertDiskReadings(d) == IF d = "Disk1" THEN {50} ELSE {30, 50}

AlertSelections == {{"Disk1"}, {"Disk1", "Disk2"}}

InitAlert ==
    /\ \E n \in AlertDepths, act \in AlertSelections :
          InitWith([BaseConfig EXCEPT !.temp_history_size = n, !.active_disks = act,
                                      !.alert_enabled = TRUE])
    /\ shadow = None
    /\ NoCall

NextAlert ==
    \/ \E t \in Threads : NoLiveThread /\ Start(t) /\ OneEngine
    \/ \E t \in Threads : LoopInit(t, DiskIds) /\ OneEngine
    \/ \E t \in Threads, c \in AlertCpuReadings, d1 \in AlertDiskReadings("Disk1"),
          d2 \in AlertDiskReadings("Disk2") :
          LoopRead(t, c, [d \in DiskIds |-> IF d = "Disk1" THEN d1 ELSE d2], 1200, TRUE)
          /\ OneEngine
    \/ \E t \in Threads : LoopDecide(t, TRUE) /\ OneEngine
    \/ \E b \in BOOLEAN : BetweenCycles /\ Toggle(b) /\ OneEngine
    \/ BetweenCycles /\ Tick /\ OneEngine

SpecAlert == InitAlert /\ [][NextAlert]_vars

\* the cycle that ends with this step reaches the alert step
AlertStepRuns == DecideStep /\ obs'.kind = "normal" /\ config.alert_enabled

CpuBreach == status.cpu_avg_temp # None /\ status.cpu_avg_temp >= config.cpu_alert_temp

DiskBreach(d) ==
    /\ d \in DOMAIN status.disk_avg_temps
    /\ status.disk_avg_temps[d] # None
    /\ status.disk_avg_temps[d] >= config.disk_alert_temp

CpuCooledDown == now - last_alert_time_cpu >= config.alert_interval

DiskCooledDown(d) ==
    now - LastDiskAlert(last_alert_time_disk, d) >= config.alert_interval

\* C14 for the CPU: a notification comes at least the cooldown after the last one;
\* a breach the alert step sees after the cooldown is notified; the last-fired
\* time moves exactly when the notification is sent, to the time of that cycle.
ThrottleCpu ==
    /\ (DecideStep /\ pushes'.cpu) => (CpuCooledDown /\ last_alert_time_cpu' = now)
    /\ (AlertStepRuns /\ CpuBreach /\ CpuCooledDown) => pushes'.cpu
    /\ ~(DecideStep /\ pushes'.cpu) => last_alert_time_cpu' = last_alert_time_cpu

\* C14 for one disk
ThrottleDisk(d) ==
    /\ (DecideStep /\ d \in pushes'.disks) =>
          (DiskCooledDown(d) /\ last_alert_time_disk'[d] = now)
    /\ (AlertStepRuns /\ DiskBreach(d) /\ DiskCooledDown(d)) => d \in pushes'.disks
    /\ ~(DecideStep /\ d \in pushes'.disks) =>
          last_alert_time_disk'[d] = last_alert_time_disk[d]

\* C14: per source (the CPU, each disk) two notifications are at least
\* alert_interval apart, a breach seen by the alert step at least alert_interval
\* after the source's last notification is notified, and the source's last-fired
\* time is updated exactly when it fires.
C14_ThrottlePerSource ==
    [][ThrottleCpu /\ \A d \in DiskIds : ThrottleDisk(d)]_vars

\* the CPU is notified a second time, the cooldown after the first
C14_Witness ==
    /\ pushes.cpu
    /\ last_alert_time_cpu = Epoch + config.alert_interval
    /\ obs.kind = "normal"

\* a breach of the CPU that is still cooling down is not notified
C14_WitnessSuppressed ==
    /\ obs.kind = "normal"
    /\ config.alert_enabled
    /\ CpuBreach
    /\ ~pushes.cpu
    /\ last_alert_time_cpu # 0
    /\ now - last_alert_time_cpu < config.alert_interval

\* C15: with alerts enabled and the control enabled, a finished cycle never leaves
\* behind a breaching source (the CPU, a selected disk) that has not been notified
\* once: the first breach is notified in its own cycle, warm-up or not.
C15_FirstBreachFires ==
    (obs.kind \in {"warmup", "safety", "normal"} /\ config.alert_enabled) =>
        /\ CpuBreach => last_alert_time_cpu # 0
        /\ \A d \in DOMAIN disks :
              (disks[d].active /\ DiskBreach(d)) => last_alert_time_disk[d] # None

\* C16: the one disk message of a cycle lists exactly the breaching disks whose
\* own cooldown has elapsed, whatever the other disks' and the CPU's clocks say,
\* and exactly the listed disks have their clocks set.
C16_DiskMessageCoalesced ==
    [][AlertStepRuns =>
          /\ pushes'.disks = {d \in DiskIds : DiskBreach(d) /\ DiskCooledDown(d)}
          /\ \A d \in DiskIds :
                last_alert_time_disk'[d] =
                    IF d \in pushes'.disks THEN now ELSE last_alert_time_disk[d]]_vars

\* one disk is notified while the other, breaching too, is still cooling down and
\* the CPU was notified at another time
C16_Witness ==
    /\ obs.kind = "normal"
    /\ pushes.disks = {"Disk2"}
    /\ DiskBreach("Disk1")
    /\ last_alert_time_disk["Disk1"] # None
    /\ last_alert_time_disk["Disk1"] < now
    /\ last_alert_time_disk["Disk2"] = now

\* C17: a disk that is not selected is never named in a notification and never
\* gets a cooldown timestamp.
C17_InactiveDisksNotAlerted ==
    \A d \in DOMAIN disks :
        ~disks[d].active => (d \notin pushes.disks /\ last_alert_time_disk[d] = None)

\* C18: a warmed-up cycle with the control disabled still notifies a CPU average
\* at or above the CPU alert threshold whose cooldown has elapsed.
C18_AlertsWhenDisabled ==
    [][(/\ DecideStep
        /\ obs'.kind = "disabled"
        /\ config.alert_enabled
        /\ CpuBreach
        /\ CpuCooledDown) => pushes'.cpu]_vars

(***************************************************************************)
(* SpecCurve: calculate_pwm_from_curve called on its own, with every curve *)
(* of up to MaxCurveLen points in any order, duplicates included           *)
(***************************************************************************)
CurvePointTemps == {20, 40, 60}

CurvePointPwms == {30, 200}

CurvePoints == [temp : CurvePointTemps, pwm : CurvePointPwms]

CurveTemps == {10, 20, 30, 40, 50, 60, 70}

Curves == UNION {[1..n -> CurvePoints] : n \in 0..MaxCurveLen}

\* the engine is left alone
EngineIdle ==
    UNCHANGED <<config, disks, cpu_temp_history, disk_temp_history, warmup_counter,
                is_warmed_up, last_alert_time_cpu, last_alert_time_disk, status,
                running, pc, pwm_file, now, obs, pushes, cycles, depth_fixed, sampled,
                prev, shadow, lock>>

InitCurve ==
    /\ InitWith(BaseConfig)
    /\ shadow = None
    /\ call \in [temp : CurveTemps, curve : Curves]
    /\ ret = <<>>

\* calculate_pwm_from_curve(temp, curve) returns
EvaluateCurve ==
    /\ ret = <<>>
    /\ ret' = calculate_pwm_from_curve(call.temp, call.curve)
    /\ call' = call
    /\ EngineIdle

NextCurve == EvaluateCurve

SpecCurve == InitCurve /\ [][NextCurve]_vars

UniqueTemps(curve) ==
    \A i, j \in 1..Len(curve) : curve[i].temp = curve[j].temp => i = j

Reorderings(n) == {f \in [1..n -> 1..n] : \A i, j \in 1..n : f[i] = f[j] => i = j}

Permuted(curve, f) == [i \in 1..Len(curve) |-> curve[f[i]]]

\* C19: for a curve with unique temperatures, every reordering of the curve
\* evaluates to the same (pwm, stage) at the same temperature.
C19_PermutationInvariant ==
    (ret # <<>> /\ UniqueTemps(call.curve)) =>
        \A f \in Reorderings(Len(call.curve)) :
            calculate_pwm_from_curve(call.temp, Permuted(call.curve, f)) = ret

\* a curve given out of order, evaluated inside a segment
C19_Witness ==
    /\ ret # <<>>
    /\ Len(call.curve) = 3
    /\ UniqueTemps(call.curve)
    /\ call.curve[1].temp > call.curve[2].temp
    /\ call.curve[3].temp < call.curve[1].temp
    /\ call.temp = 30
    /\ ret = <<115, "work">>

LowestTemp(curve) ==
    CHOOSE t \in {curve[i].temp : i \in 1..Len(curve)} :
        \A i \in 1..Len(curve) : t <= curve[i].temp

HighestTemp(curve) ==
    CHOOSE t \in {curve[i].temp : i \in 1..Len(curve)} :
        \A i \in 1..Len(curve) : t >= curve[i].temp

\* the first listed of the points with the lowest temperature
LowestPoint(curve) ==
    curve[CHOOSE i \in 1..Len(curve) :
            /\ curve[i].temp = LowestTemp(curve)
            /\ \A j \in 1..Len(curve) : curve[j].temp = LowestTemp(curve) => i <= j]

\* the last listed of the points with the highest temperature
HighestPoint(curve) ==
    curve[CHOOSE i \in 1..Len(curve) :
            /\ curve[i].temp = HighestTemp(curve)
            /\ \A j \in 1..Len(curve) : curve[j].temp = HighestTemp(curve) => i >= j]

\* C20 as stated: for a non-empty curve a temperature at or below the lowest curve
\* temperature yields (PWM of the lowest point, "idle") and a temperature at or
\* above the highest yields (PWM of the highest point, "critical").
C20_NoExtrapolation ==
    (ret # <<>> /\ call.curve # <<>>) =>
        /\ call.temp <= LowestTemp(call.curve) =>
              ret = <<LowestPoint(call.curve).pwm, "idle">>
        /\ call.temp >= HighestTemp(call.curve) =>
              ret = <<HighestPoint(call.curve).pwm, "critical">>

\* C20 amended: the high end applies to temperatures that are not also at or
\* below the lowest curve temperature; a temperature that is both (all points of
\* the curve at that one temperature) gets the low end's answer.
C20_NoExtrapolationLowFirst ==
    (ret # <<>> /\ call.curve # <<>>) =>
        /\ call.temp <= LowestTemp(call.curve) =>
              ret = <<LowestPoint(call.curve).pwm, "idle">>
        /\ (call.temp >= HighestTemp(call.curve) /\ call.temp > LowestTemp(call.curve)) =>
              ret = <<HighestPoint(call.curve).pwm, "critical">>

\* above the highest point of a falling curve: no extrapolation downwards
C20_Witness ==
    /\ ret = <<30, "critical">>
    /\ Len(call.curve) = 2
    /\ call.temp > HighestTemp(call.curve)
    /\ LowestPoint(call.curve).pwm = 200

(***************************************************************************)
(* Interpolation inside the curve                                          *)
(***************************************************************************)
\* the segments of the sorted curve that bracket the temperature
Bracketing(temp, curve) ==
    {i \in 1..(Len(curve) - 1) :
        SortCurve(curve)[i].temp <= temp /\ temp <= SortCurve(curve)[i + 1].temp}

\* p1.pwm + (temp - p1.temp) * (p2.pwm - p1.pwm) / (p2.temp - p1.temp), truncated
Lerp(temp, p1, p2) ==
    TruncDiv(p1.pwm * (p2.temp - p1.temp) + (temp - p1.temp) * (p2.pwm - p1.pwm),
             p2.temp - p1.temp)

\* the value brought into the range spanned by the PWMs of the two points
ClampedToSegment(pwm, p1, p2) ==
    Max(Min(p1.pwm, p2.pwm), Min(Max(p1.pwm, p2.pwm), pwm))

StrictlyInside(temp, curve) ==
    /\ curve # <<>>
    /\ UniqueTemps(curve)
    /\ LowestTemp(curve) < temp
    /\ temp < HighestTemp(curve)

\* C21: for a temperature strictly between the lowest and the highest curve
\* temperature, with bracketing points p1 and p2, the returned PWM is
\* p1.pwm + (temp - p1.temp) * (p2.pwm - p1.pwm) / (p2.temp - p1.temp) truncated
\* and clamped to the PWMs of the segment, and the stage is the band of that PWM.
C21_InterpolatedValue ==
    (ret # <<>> /\ StrictlyInside(call.temp, call.curve)) =>
        \A i \in Bracketing(call.temp, call.curve) :
            ret = Staged(ClampedToSegment(
                      Lerp(call.temp, SortCurve(call.curve)[i], SortCurve(call.curve)[i + 1]),
                      SortCurve(call.curve)[i], SortCurve(call.curve)[i + 1]))

(***************************************************************************)
(* Monotonic evaluation                                                    *)
(***************************************************************************)
\* the PWM of the curve does not fall as the temperature rises
NonDecreasing(curve) ==
    \A i, j \in 1..Len(curve) : curve[i].temp <= curve[j].temp => curve[i].pwm <= curve[j].pwm

\* C22: for a curve whose PWM values are non-decreasing in temperature and any
\* two temperatures t1 <= t2 (below, inside or above the curve's range), the PWM
\* returned for t1 is at most the PWM returned for t2.
C22_Monotonic ==
    (ret # <<>> /\ NonDecreasing(call.curve)) =>
        \A t2 \in CurveTemps :
            call.temp <= t2 => ret[1] <= calculate_pwm_from_curve(t2, call.curve)[1]

\* a quarter of the way up a rising segment, below what the rest of it returns
C22_Witness ==
    /\ ret = <<72, "work">>
    /\ call.temp = 30
    /\ call.curve = <<[temp |-> 60, pwm |-> 200], [temp |-> 20, pwm |-> 30]>>
    /\ NonDecreasing(call.curve)
    /\ calculate_pwm_from_curve(50, call.curve)[1] = 157

(***************************************************************************)
(* SpecEmpty: the control loop with a curve that may have no points        *)
(***************************************************************************)
EmptyCurve == <<>>

InitEmpty ==
    /\ \E cc \in {EmptyCurve, ExampleCurve}, dc \in {EmptyCurve, QuietDiskCurve} :
          InitWith([BaseConfig EXCEPT !.cpu_curve = cc, !.disk_curve = dc,
                                      !.active_disks = {"Disk2"}])
    /\ shadow = None
    /\ NoCall

NextEmpty ==
    \/ \E t \in Threads : NoLiveThread /\ Start(t) /\ OneEngine
    \/ \E t \in Threads : LoopInit(t, DiskIds) /\ OneEngine
    \/ \E t \in Threads, c \in CpuReadings, dtemp \in DiskReads(DiskIds), pwm_ok \in BOOLEAN :
          LoopRead(t, c, dtemp, 1200, pwm_ok) /\ OneEngine
    \/ \E t \in Threads, ok \in BOOLEAN : LoopDecide(t, ok) /\ OneEngine

SpecEmpty == InitEmpty /\ [][NextEmpty]_vars

\* the last cycle ran to its end on a side whose curve is empty
EmptyCurveUsed ==
    \/ obs.cpu_avg # None /\ config.cpu_curve = EmptyCurve
    \/ obs.max_disk # None /\ config.disk_curve = EmptyCurve

\* C23: an empty curve evaluates to (100, "unknown") at every temperature, and a
\* cycle that has data for a side whose curve is empty ends as a normal cycle:
\* that side demands (100, "unknown") and the larger demand is published as the
\* target.
C23_EmptyCurveDefault ==
    /\ \A t \in CurveTemps : calculate_pwm_from_curve(t, EmptyCurve) = <<100, "unknown">>
    /\ (obs.kind # "none" /\ obs.kind # "warmup" /\ EmptyCurveUsed) =>
          /\ obs.kind = "normal"
          /\ (obs.cpu_avg # None /\ config.cpu_curve = EmptyCurve) =>
                obs.cpu_pwm = 100 /\ obs.cpu_stage = "unknown"
          /\ (obs.max_disk # None /\ config.disk_curve = EmptyCurve) =>
                obs.disk_pwm = 100 /\ obs.disk_stage = "unknown"
          /\ status.target_pwm = Max(obs.cpu_pwm, obs.disk_pwm)
          /\ status.target_pwm >= 100

\* a cycle with CPU data only and no CPU curve publishes the default
C23_Witness ==
    /\ obs.kind = "normal"
    /\ config.cpu_curve = EmptyCurve
    /\ obs.cpu_avg = 60
    /\ obs.max_disk = None
    /\ status.target_pwm = 100
    /\ status.trigger_source = "CPU"
    /\ status.trigger_stage = "unknown"

(***************************************************************************)
(* SpecHist: the control loop with sensors that also report 0; next to the *)
(* engine, the windows and the record of clean feeds that the              *)
(* TemperatureHistory contract describes                                   *)
(***************************************************************************)
HistCpuReadings == {None, 0, 30}

HistDiskReadings == {None, 0, 40, 43}

HistDisks == {"Disk1"}

\* a present sample greater than 0
ValidSample(reading) == reading # None /\ reading > 0

\* the last n entries of a window
LastN(w, n) == IF Len(w) > n THEN SubSeq(w, Len(w) - n + 1, Len(w)) ELSE w

\* the contract's window after one reading: cleared when the reading is absent,
\* left alone when it is 0 or negative, else appended to with the oldest evicted
ContractWindow(w, reading, n) ==
    IF reading = None THEN <<>>
    ELSE IF reading <= 0 THEN w
    ELSE LastN(Append(w, reading), n)

\* every reading so far was a valid sample, and there were at most n of them
StillClean(clean, w, reading, n) == clean /\ ValidSample(reading) /\ Len(w) < n

NoWindows ==
    [cpu |-> <<>>, disk |-> [d \in DiskIds |-> <<>>],
     clean_cpu |-> TRUE, clean_disk |-> [d \in DiskIds |-> TRUE]]

\* the contract's windows after the readings of one cycle
Contract(g, cpu_temp, dtemp, n) ==
    [cpu |-> ContractWindow(g.cpu, cpu_temp, n),
     disk |-> [d \in DiskIds |->
                 IF d \in DOMAIN dtemp THEN ContractWindow(g.disk[d], dtemp[d], n)
                 ELSE g.disk[d]],
     clean_cpu |-> StillClean(g.clean_cpu, g.cpu, cpu_temp, n),
     clean_disk |-> [d \in DiskIds |->
                       IF d \in DOMAIN dtemp
                       THEN StillClean(g.clean_disk[d], g.disk[d], dtemp[d], n)
                       ELSE g.clean_disk[d]]]

InitHist ==
    /\ \E n \in HistSizes :
          InitWith([BaseConfig EXCEPT !.temp_history_size = n, !.active_disks = HistDisks])
    /\ shadow = NoWindows
    /\ NoCall

NextHist ==
    \/ \E t \in Threads : NoLiveThread /\ Start(t) /\ OneEngine
    \/ \E t \in Threads : LoopInit(t, HistDisks) /\ OneEngine
    \/ \E t \in Threads, c \in HistCpuReadings, dtemp \in [HistDisks -> HistDiskReadings] :
          /\ LoopRead(t, c, dtemp, 1200, TRUE)
          /\ shadow' = Contract(shadow, c, dtemp, config.temp_history_size)
          /\ UNCHANGED <<prev, call, ret, lock>>
    \/ \E t \in Threads : LoopDecide(t, TRUE) /\ OneEngine

SpecHist == InitHist /\ [][NextHist]_vars

\* C24: after any sequence of per-cycle readings with history depth N, the window
\* of each source (the CPU, each detected disk) holds the most recent min(k, N)
\* valid (> 0) samples received since the last absent reading, oldest first:
\* readings of 0 or less are not stored and evict nothing, and the window is
\* never longer than N.
C24_WindowContents ==
    /\ cpu_temp_history = shadow.cpu
    /\ Len(cpu_temp_history) <= config.temp_history_size
    /\ \A d \in DOMAIN disks :
          /\ disk_temp_history[d] = shadow.disk[d]
          /\ Len(disk_temp_history[d]) <= config.temp_history_size

\* the entries of a window that are greater than 0
Positive(h) == SelectSeq(h, LAMBDA t : t > 0)

\* floor(sum / count), "no data" for no entries
FloorMean(h) ==
    IF h = <<>> THEN None
    ELSE CHOOSE q \in 0..SumSeq(h) : q * Len(h) <= SumSeq(h) /\ SumSeq(h) < (q + 1) * Len(h)

\* C25: the published average of each source is floor(sum / count) over the
\* entries of its window that are greater than 0, and "no data" exactly when
\* there is no such entry; an average that is present is at least 1; after
\* k <= N valid samples and no other reading it is floor(sum of the k samples / k).
C25_AverageOfPositives ==
    /\ status.cpu_avg_temp = FloorMean(Positive(cpu_temp_history))
    /\ (status.cpu_avg_temp = None) = (\A i \in 1..Len(cpu_temp_history) : cpu_temp_history[i] <= 0)
    /\ status.cpu_avg_temp # None => status.cpu_avg_temp >= 1
    /\ shadow.clean_cpu => status.cpu_avg_temp = FloorMean(shadow.cpu)
    /\ \A d \in DOMAIN status.disk_avg_temps :
          /\ status.disk_avg_temps[d] = FloorMean(Positive(disk_temp_history[d]))
          /\ (status.disk_avg_temps[d] = None) =
                (\A i \in 1..Len(disk_temp_history[d]) : disk_temp_history[d][i] <= 0)
          /\ status.disk_avg_temps[d] # None => status.disk_avg_temps[d] >= 1
          /\ shadow.clean_disk[d] => status.disk_avg_temps[d] = FloorMean(shadow.disk[d])

\* two valid samples with an odd sum, next to a window that also holds a 0
C25_Witness ==
    /\ config.temp_history_size = 2
    /\ disk_temp_history["Disk1"] = <<40, 43>>
    /\ shadow.clean_disk["Disk1"]
    /\ status.disk_avg_temps["Disk1"] = 41
    /\ cpu_temp_history = <<30, 0>>
    /\ status.cpu_avg_temp = 30

(***************************************************************************)
(* SpecMid: API calls that arrive while a control cycle is in flight; the  *)
(* configuration in force when the cycle began is kept next to the engine  *)
(***************************************************************************)
MidThresholds == {0, 120}

MidDisks == {"Disk2"}

MidCpuReadings == {None, 60}

InitMid ==
    /\ InitWith(BaseConfig)
    /\ shadow = None
    /\ NoCall

\* the cycle begins: the configuration of this moment is noted
Began == shadow' = config /\ UNCHANGED <<prev, call, ret, lock>>

NextMid ==
    \/ \E t \in Threads : NoLiveThread /\ Start(t) /\ OneEngine
    \/ \E t \in Threads : LoopInit(t, MidDisks) /\ OneEngine
    \/ \E t \in Threads, c \in MidCpuReadings, dtemp \in DiskReads(MidDisks) :
          LoopRead(t, c, dtemp, 1200, TRUE) /\ Began
    \/ \E t \in Threads : LoopDecide(t, TRUE) /\ OneEngine
    \/ \E b \in BOOLEAN : Toggle(b) /\ OneEngine
    \/ \E th \in MidThresholds : UpdateConfig([pwm_change_threshold |-> th]) /\ OneEngine
    \/ \E ids \in SUBSET MidDisks : SetActiveDisks(ids) /\ OneEngine

SpecMid == InitMid /\ [][NextMid]_vars

\* the second half of the cycle had it used the configuration it began with
AsBegun == CycleF([Eng EXCEPT !.config = shadow], TRUE, now)

\* C26: a configuration or active-set update issued while a cycle is in flight
\* changes no decision of that cycle: the cycle takes the branch, publishes the
\* target and leaves the actuator as it would have with the configuration in
\* force when it began.
C26_InFlightCycleUnaffected ==
    [][DecideStep =>
          /\ obs'.kind = AsBegun.obs.kind
          /\ status'.target_pwm = AsBegun.status.target_pwm
          /\ status'.trigger_source = AsBegun.status.trigger_source
          /\ pwm_file' = AsBegun.pwm_file]_vars

(***************************************************************************)
(* SpecRace: _read_temps statement by statement, called by the control     *)
(* loop and by refresh() of an API thread at the same time.  call holds    *)
(* the frame of each caller's invocation, shadow the number of samples     *)
(* appended so far (counted up to the history depth)                       *)
(***************************************************************************)
Callers == {"loop", "refresh"}

RaceCpuReadings == {None, 30}

IdleFrame == [pc |-> "idle", cpu_temp |-> None, history_size |-> None]

InitRace ==
    /\ \E n \in HistSizes : InitWith([BaseConfig EXCEPT !.temp_history_size = n])
    /\ shadow = 0
    /\ call = [c \in Callers |-> IdleFrame]
    /\ ret = <<>>

\* the loop calls _read_temps at the start of a cycle, refresh() at any time
MayEnter(c) == c = "loop" => (running /\ \E t \in Threads : pc[t] = "loop")

\* lines 622-626: the depth and the CPU reading are taken into locals
ReadEnter(c, cpu_temp) ==
    /\ call[c].pc = "idle"
    /\ MayEnter(c)
    /\ call' = [call EXCEPT ![c] = [pc |-> IF cpu_temp # None THEN "append" ELSE "avg",
                                    cpu_temp |-> cpu_temp,
                                    history_size |-> config.temp_history_size]]
    /\ UNCHANGED <<config, disks, cpu_temp_history, disk_temp_history, warmup_counter,
                   is_warmed_up, last_alert_time_cpu, last_alert_time_disk, status,
                   running, pc, pwm_file, now, obs, pushes, cycles, depth_fixed, sampled,
                   prev, shadow, ret, lock>>

\* line 627: self.cpu_temp_history.append(cpu_temp), no lock held
ReadAppend(c) ==
    /\ call[c].pc = "append"
    /\ cpu_temp_history' = Append(cpu_temp_history, call[c].cpu_temp)
    /\ shadow' = Min(shadow + 1, config.temp_history_size)
    /\ call' = [call EXCEPT ![c].pc = "check"]
    /\ UNCHANGED <<config, disks, disk_temp_history, warmup_counter,
                   is_warmed_up, last_alert_time_cpu, last_alert_time_disk, status,
                   running, pc, pwm_file, now, obs, pushes, cycles, depth_fixed, sampled,
                   prev, ret, lock>>

\* line 628: while len(self.cpu_temp_history) > history_size
ReadCheck(c) ==
    /\ call[c].pc = "check"
    /\ call' = [call EXCEPT ![c].pc = IF Len(cpu_temp_history) > call[c].history_size
                                      THEN "pop" ELSE "avg"]
    /\ UNCHANGED <<config, disks, cpu_temp_history, disk_temp_history, warmup_counter,
                   is_warmed_up, last_alert_time_cpu, last_alert_time_disk, status,
                   running, pc, pwm_file, now, obs, pushes, cycles, depth_fixed, sampled,
                   prev, shadow, ret, lock>>

\* line 629: self.cpu_temp_history.pop(0); an empty list raises IndexError and
\* the invocation ends
ReadPop(c) ==
    /\ call[c].pc = "pop"
    /\ cpu_temp_history' = IF cpu_temp_history = <<>> THEN <<>> ELSE Tail(cpu_temp_history)
    /\ call' = [call EXCEPT ![c] = IF cpu_temp_history = <<>> THEN IdleFrame
                                   ELSE [@ EXCEPT !.pc = "check"]]
    /\ UNCHANGED <<config, disks, disk_temp_history, warmup_counter,
                   is_warmed_up, last_alert_time_cpu, last_alert_time_disk, status,
                   running, pc, pwm_file, now, obs, pushes, cycles, depth_fixed, sampled,
                   prev, shadow, ret, lock>>

\* lines 631-675 with no disk detected: the average, the fan ports, and the
\* status written under the lock
PublishF(e, cpu_temp, fan_rpm, current_pwm, ts) ==
    [e EXCEPT !.status = [@ EXCEPT !.cpu_temp = cpu_temp,
                                   !.cpu_avg_temp = calc_avg(e.cpu_temp_history),
                                   !.disk_temps = <<>>,
                                   !.disk_avg_temps = <<>>,
                                   !.max_disk_temp = None,
                                   !.fan_rpm = fan_rpm,
                                   !.current_pwm = current_pwm,
                                   !.last_update = ts]]

\* refresh() returns; the loop's cycle goes on with its second half
ReadPublish(c) ==
    /\ call[c].pc = "avg"
    /\ call' = [call EXCEPT ![c] = IdleFrame]
    /\ IF c = "loop"
       THEN /\ SetEng([PublishF(Eng, call[c].cpu_temp, 1200, pwm_file, now)
                         EXCEPT !.obs = NoObs, !.pushes = NoPushes])
            /\ sampled' = Sample(call[c].cpu_temp, <<>>, 1200, pwm_file)
            /\ pc' = [t \in Threads |-> IF pc[t] = "loop" THEN "decide" ELSE pc[t]]
       ELSE /\ SetEng(PublishF(Eng, call[c].cpu_temp, 1200, pwm_file, now))
            /\ UNCHANGED <<sampled, pc>>
    /\ UNCHANGED <<running, now, cycles, depth_fixed, prev, shadow, ret, lock>>

NextRace ==
    \/ \E t \in Threads : NoLiveThread /\ Start(t) /\ OneEngine
    \/ \E t \in Threads : LoopInit(t, {}) /\ OneEngine
    \/ \E c \in Callers, cpu_temp \in RaceCpuReadings : ReadEnter(c, cpu_temp)
    \/ \E c \in Callers : ReadAppend(c)
    \/ \E c \in Callers : ReadCheck(c)
    \/ \E c \in Callers : ReadPop(c)
    \/ \E c \in Callers : ReadPublish(c)
    \/ \E t \in Threads : LoopDecide(t, TRUE) /\ OneEngine

SpecRace == InitRace /\ [][NextRace]_vars

NoReadInFlight == \A c \in Callers : call[c].pc = "idle"

\* C27: the history updates of the control loop and of a concurrent refresh do
\* not interleave, so no valid sample is lost or evicted twice: whenever no
\* _read_temps is in flight the CPU window holds min(k, N) samples, k the number
\* of samples appended so far and N the history depth.
C27_NoSampleLost ==
    NoReadInFlight => Len(cpu_temp_history) = Min(shadow, config.temp_history_size)

(***************************************************************************)
(* SpecLock: who holds FanController.lock while the ports are at work.     *)
(* call holds the position of the loop thread and of an API thread:        *)
(* "sensors" inside the port reads of _read_temps, "scan" inside           *)
(* detect_all_disks                                                        *)
(***************************************************************************)
LockCallers == {"loop", "api"}

\* positions at which a caller is inside an external I/O call
InsideIO == {"sensors", "scan"}

InitLock ==
    /\ InitWith([BaseConfig EXCEPT !.active_disks = {"Disk1"}])
    /\ shadow = None
    /\ call = [c \in LockCallers |-> "idle"]
    /\ ret = <<>>

Position(c, p) == call' = [call EXCEPT ![c] = p]

\* lines 625-664: the loop thread reads its sensors, holding no lock
SensorsBegin ==
    /\ call["loop"] = "idle"
    /\ running
    /\ \E t \in Threads : pc[t] = "loop"
    /\ Position("loop", "sensors")
    /\ UNCHANGED <<config, disks, cpu_temp_history, disk_temp_history, warmup_counter,
                   is_warmed_up, last_alert_time_cpu, last_alert_time_disk, status,
                   running, pc, pwm_file, now, obs, pushes, cycles, depth_fixed, sampled,
                   prev, shadow, ret, lock>>

\* lines 667-675: with self.lock, the readings are published
SensorsPublish(t, cpu_temp, dtemp) ==
    /\ call["loop"] = "sensors"
    /\ lock = NoneStr
    /\ LoopRead(t, cpu_temp, dtemp, 1200, TRUE)
    /\ Position("loop", "idle")
    /\ UNCHANGED <<prev, shadow, ret, lock>>

\* lines 564-565: detect_disks takes the lock and calls detect_all_disks
DetectAcquire ==
    /\ call["api"] = "idle"
    /\ lock = NoneStr
    /\ lock' = "api"
    /\ Position("api", "scan")
    /\ UNCHANGED <<config, disks, cpu_temp_history, disk_temp_history, warmup_counter,
                   is_warmed_up, last_alert_time_cpu, last_alert_time_disk, status,
                   running, pc, pwm_file, now, obs, pushes, cycles, depth_fixed, sampled,
                   prev, shadow, ret>>

\* lines 565-570: detect_all_disks returns, the list is assigned, the lock released
DetectRelease(found) ==
    /\ call["api"] = "scan"
    /\ lock = "api"
    /\ DetectDisks(found)
    /\ lock' = NoneStr
    /\ Position("api", "idle")
    /\ UNCHANGED <<prev, shadow, ret>>

\* lines 610-613: get_status copies the status under the lock
GetStatus ==
    /\ call["api"] = "idle"
    /\ lock = NoneStr
    /\ ret' = <<status.target_pwm>>
    /\ UNCHANGED <<config, disks, cpu_temp_history, disk_temp_history, warmup_counter,
                   is_warmed_up, last_alert_time_cpu, last_alert_time_disk, status,
                   running, pc, pwm_file, now, obs, pushes, cycles, depth_fixed, sampled,
                   prev, shadow, call, lock>>

NextLock ==
    \/ \E t \in Threads : NoLiveThread /\ Start(t) /\ OneEngine
    \/ \E t \in Threads : lock = NoneStr /\ LoopInit(t, DiskIds) /\ OneEngine
    \/ SensorsBegin
    \/ \E t \in Threads, c \in CpuReadings, dtemp \in DiskReads(DOMAIN disks) :
          SensorsPublish(t, c, dtemp)
    \/ \E t \in Threads : lock = NoneStr /\ LoopDecide(t, TRUE) /\ OneEngine
    \/ DetectAcquire
    \/ \E found \in SUBSET DiskIds : DetectRelease(found)
    \/ GetStatus

SpecLock == InitLock /\ [][NextLock]_vars

\* C28: no external I/O (sensor read, disk detection) is performed while the
\* engine lock is held: no thread is inside an I/O call with the lock in its hand,
\* so no other thread waits for the lock for the duration of an I/O call.
C28_NoIOUnderLock ==
    \A c \in LockCallers : call[c] \in InsideIO => lock # c

(***************************************************************************)
(* SpecLoop: the control loop with a history depth that may be 0 or less,  *)
(* sensors and an actuator that may fail, and stop()                       *)
(***************************************************************************)
Depths == {0 - 1, 0, 1}

LoopDisks == {"Disk1"}

LoopCpuReadings == {None, 30}

InitLoop ==
    /\ \E n \in Depths :
          InitWith([BaseConfig EXCEPT !.temp_history_size = n, !.active_disks = LoopDisks])
    /\ shadow = None
    /\ NoCall

\* with depth 0 the warm-up counter grows with every cycle: the cycles stop here
WarmupBounded == warmup_counter < MaxWarmup

\* a cycle begins: the observation of the cycle before is kept
CycleBegins == prev' = obs /\ UNCHANGED <<shadow, call, ret, lock>>

NextLoop ==
    \/ \E t \in Threads : NoLiveThread /\ Start(t) /\ OneEngine
    \/ Stop /\ OneEngine
    \/ \E t \in Threads : LoopInit(t, LoopDisks) /\ OneEngine
    \/ \E t \in Threads : LoopExit(t) /\ OneEngine
    \/ \E t \in Threads, c \in LoopCpuReadings, dtemp \in DiskReads(LoopDisks) :
          WarmupBounded /\ LoopRead(t, c, dtemp, 1200, TRUE) /\ CycleBegins
    \/ \E t \in Threads, c \in LoopCpuReadings, dtemp \in DiskReads(LoopDisks) :
          WarmupBounded /\ LoopReadRaises(t, c, dtemp) /\ CycleBegins
    \/ \E t \in Threads, ok \in BOOLEAN : LoopDecide(t, ok) /\ OneEngine

SpecLoop == InitLoop /\ [][NextLoop]_vars

\* a loop thread is alive: before its first cycle, between two cycles, or in one
ThreadAlive(t) == pc[t] \in {"init", "loop", "decide"}

\* the cycle that just ended raised an exception
CycleRaised == obs.kind = "error"

\* C29: no failure inside a control cycle stops the loop: whatever the sensors
\* return, whether or not the actuator can be written, and for a history depth
\* of 1, 0 or -1, a running engine has a live loop thread, and after a cycle that
\* raised an exception the thread of a running engine stands at the top of its
\* loop, where the next cycle begins.
C29_LoopSurvives ==
    /\ running => \E t \in Threads : ThreadAlive(t)
    /\ (running /\ CycleRaised) => \E t \in Threads : pc[t] \in {"init", "loop"}

\* a cycle that ran to its end after a cycle that raised IndexError in _read_temps
C29_Witness ==
    /\ running
    /\ prev.kind = "error"
    /\ prev.depth = 0 - 1
    /\ obs.kind = "safety"
    /\ \E t \in Threads : pc[t] = "loop"

\* a cycle that raised ZeroDivisionError after another one that did
C29_WitnessZeroDepth ==
    /\ running
    /\ prev.kind = "error"
    /\ prev.depth = 0
    /\ obs.kind = "error"
    /\ obs.depth = 0
    /\ config.temp_history_size = 0
    /\ \E t \in Threads : pc[t] = "loop"

(***************************************************************************)
(* Failed actuator writes, checked on SpecHyst                             *)
(***************************************************************************)
\* the cycle handed a value to set_pwm and the file does not hold it afterwards
FailedWrite(o) == o.wrote # None /\ o.force # ClampPwm(o.wrote)

\* the stage of the side the status names as the trigger
PublishedStage(o) == IF status.trigger_source = "CPU" THEN o.cpu_stage ELSE o.disk_stage

\* C30: a cycle whose actuator write failed raised nothing and still published
\* the intended value as target_pwm, with its trigger source and stage; and the
\* cycle after a failed write attempts the write again whenever the value to
\* apply differs from the value it read back from the actuator.
C30_FailedWriteRetried ==
    /\ FailedWrite(obs) =>
          /\ Controlled(obs)
          /\ status.target_pwm = obs.wrote
          /\ obs.kind = "normal" =>
                /\ status.trigger_source \in {"CPU", "Disk"}
                /\ status.trigger_stage = PublishedStage(obs)
          /\ obs.kind = "safety" =>
                /\ status.target_pwm = SafePwm
                /\ status.trigger_source = "Safety"
                /\ status.trigger_stage = "warning"
    /\ (FailedWrite(prev) /\ Controlled(obs)) =>
          (status.target_pwm # obs.cur => obs.wrote = status.target_pwm)

\* a write that failed, attempted again by the next cycle and then in force
C30_Witness ==
    /\ FailedWrite(prev)
    /\ prev.kind = "normal"
    /\ obs.kind = "normal"
    /\ obs.cur # None
    /\ obs.cur # prev.wrote
    /\ obs.wrote = prev.wrote
    /\ obs.force = ClampPwm(obs.wrote)
    /\ status.target_pwm = obs.wrote

(***************************************************************************)
(* SpecDisks: the control loop next to the API calls that touch the disk   *)
(* list and the selection.  call names the last of these calls and its     *)
(* argument, shadow holds the configuration as it was before that call     *)
(***************************************************************************)
Devices == {"sda", "sdb"}

\* what a scan finds: ids in use, each with the device that carries it this time
Scans ==
    UNION {{f \in [found -> Devices] : \A a, b \in found : f[a] = f[b] => a = b} :
             found \in SUBSET DiskIds}

NoApiCall == [op |-> "none", arg |-> <<>>]

Called(op, arg) ==
    /\ call' = [op |-> op, arg |-> arg]
    /\ shadow' = config
    /\ UNCHANGED <<prev, ret, lock>>

InitDisks ==
    /\ \E act \in SUBSET DiskIds :
          InitWith([BaseConfig EXCEPT !.temp_history_size = 2, !.active_disks = act])
    /\ shadow = config
    /\ call = NoApiCall
    /\ ret = <<>>

NextDisks ==
    \/ \E t \in Threads : NoLiveThread /\ Start(t) /\ OneEngine
    \/ \E t \in Threads, scan \in Scans :
          LoopInit(t, DOMAIN scan) /\ Called("detect_disks", scan)
    \/ \E t \in Threads, dt \in DiskReads(DOMAIN disks) :
          LoopRead(t, 30, dt, 1200, TRUE) /\ OneEngine
    \/ \E t \in Threads : LoopDecide(t, TRUE) /\ OneEngine
    \/ \E scan \in Scans :
          BetweenCycles /\ DetectDisks(DOMAIN scan) /\ Called("detect_disks", scan)
    \/ \E ids \in SUBSET DiskIds :
          BetweenCycles /\ SetActiveDisks(ids) /\ Called("set_active_disks", ids)
    \/ \E ids \in SUBSET DiskIds :
          BetweenCycles /\ UpdateConfig([active_disks |-> ids])
          /\ Called("update_config", ids)

SpecDisks == InitDisks /\ [][NextDisks]_vars

\* C31: after detect_disks() a disk of the rebuilt list is active exactly when its
\* id is in the persisted active-disk ids, whatever device carries the id, and
\* the persisted ids are what they were before the detection.
C31_DetectionKeepsSelection ==
    call.op = "detect_disks" =>
        /\ DOMAIN disks = DOMAIN call.arg
        /\ \A d \in DOMAIN disks : disks[d].active = (d \in config.active_disks)
        /\ config.active_disks = shadow.active_disks

\* a selected disk found again on another device, next to one not selected
C31_Witness ==
    /\ call.op = "detect_disks"
    /\ call.arg = [d \in DiskIds |-> IF d = "Disk1" THEN "sdb" ELSE "sda"]
    /\ cycles > 0
    /\ config.active_disks = {"Disk1"}
    /\ disks["Disk1"].active
    /\ ~disks["Disk2"].active

\* an API call has just been made (the loop threads did not move)
ApiStep(op) == pc' = pc /\ call'.op = op

\* the window the cycle leaves for a disk that read r, at depth n
WindowAfter(w, r, n) == IF r = None THEN <<>> ELSE LastN(Append(w, r), n)

\* C32: the active flag never affects sampling: in every cycle each known disk,
\* active or not, is read and gets its window and its average updated; and
\* set_active_disks changes no history window, nor the warm-up counter, nor the
\* warmed-up flag.
C32_SelectionLeavesSamplingAlone ==
    [][/\ ReadStep =>
            \A d \in DOMAIN disks :
                /\ status'.disk_temps[d] = sampled'.disk[d]
                /\ disk_temp_history'[d] =
                       WindowAfter(disk_temp_history[d], sampled'.disk[d],
                                   config.temp_history_size)
                /\ status'.disk_avg_temps[d] = FloorMean(Positive(disk_temp_history'[d]))
       /\ ApiStep("set_active_disks") =>
            UNCHANGED <<cpu_temp_history, disk_temp_history, warmup_counter,
                        is_warmed_up, status>>]_vars

\* a disk taken out of the selection after the warm-up, its window still filling
C32_Witness ==
    /\ call.op = "set_active_disks"
    /\ is_warmed_up
    /\ "Disk2" \in DOMAIN disks
    /\ ~disks["Disk2"].active
    /\ disk_temp_history["Disk2"] = <<50, 50>>
    /\ status.disk_avg_temps["Disk2"] = 50
    /\ status.max_disk_temp # 50

\* C39: after any sequence of set_active_disks, update_config and detect_disks
\* calls, the active flag of every known disk equals the membership of its id in
\* the configuration's active-disk ids.
C39_FlagsFollowConfiguration ==
    \A d \in DOMAIN disks : disks[d].active = (d \in config.active_disks)

\* a normal cycle that could read the actuator and whose write, if it made one,
\* reached the file
AppliedCycle ==
    /\ obs.kind = "normal"
    /\ obs.cur # None
    /\ obs.wrote # None => obs.force = ClampPwm(obs.wrote)

\* C37 as stated: after such a cycle the actuator differs from the raw curve
\* target by less than the threshold T > 0, and with T = 0 it is the raw target
\* clamped to 0..255.
C37_DriftBelowThreshold ==
    AppliedCycle =>
        IF config.pwm_change_threshold > 0
        THEN Abs(obs.force - obs.raw) < config.pwm_change_threshold
        ELSE obs.force = ClampPwm(obs.raw)

\* C37, amended: after such a cycle the actuator differs by less than T > 0 from
\* the raw curve target clamped to 0..255, and with T = 0 it equals that value.
C37_DriftFromClampedTarget ==
    AppliedCycle =>
        IF config.pwm_change_threshold > 0
        THEN Abs(obs.force - ClampPwm(obs.raw)) < config.pwm_change_threshold
        ELSE obs.force = ClampPwm(obs.raw)

\* a target above 255 written as 255, further from the raw target than T
C37_Witness ==
    /\ AppliedCycle
    /\ config.pwm_change_threshold = 20
    /\ obs.raw = 300
    /\ obs.wrote = 300
    /\ obs.force = 255

\* C38: after every cycle the status field is_warmed_up agrees with the engine's
\* own warm-up flag, also after stop() and start(): a restarted engine reports
\* is_warmed_up = false until the new warm-up is complete.
C38_StatusWarmupAgrees ==
    (BetweenCycles /\ cycles > 0) => status.is_warmed_up = is_warmed_up

(***************************************************************************)
(* SpecManual: the manual PWM override at any moment of the control loop,  *)
(* enabled or not.  call names the last API call, ret what it returned     *)
(***************************************************************************)
Requests == {0 - 5, 0, 152, 300}

InitManual ==
    /\ InitWith(BaseConfig)
    /\ shadow = config
    /\ call = NoApiCall
    /\ ret = <<>>

\* POST /api/control/pwm: the value is handed to set_manual_pwm, the answer kept
ManualPwm(value, ok) ==
    /\ SetManualPwm(value, ok)
    /\ call' = [op |-> "set_manual_pwm", arg |-> value]
    /\ ret' = <<ok>>
    /\ UNCHANGED <<prev, shadow, lock>>

NextManual ==
    \/ \E t \in Threads : NoLiveThread /\ Start(t) /\ OneEngine
    \/ \E t \in Threads : LoopInit(t, {}) /\ OneEngine
    \/ \E t \in Threads, c \in CpuReadings : LoopRead(t, c, <<>>, 1200, TRUE) /\ OneEngine
    \/ \E t \in Threads : LoopDecide(t, TRUE) /\ OneEngine
    \/ \E b \in BOOLEAN : Toggle(b) /\ Called("toggle", b)
    \/ \E v \in Requests, ok \in BOOLEAN : ManualPwm(v, ok)

SpecManual == InitManual /\ [][NextManual]_vars

\* C33: the manual override writes the requested value to the actuator once (the
\* value itself when it is within 0..255, the nearer end of that range when it
\* is not; nothing when the file cannot be written), whatever the warm-up state
\* and the enabled flag are, and changes neither the enabled flag nor the rest of
\* the configuration, the histories or the status.
C33_ManualOverrideOnly ==
    [][ApiStep("set_manual_pwm") =>
          /\ pwm_file' = IF ret'[1] THEN ClampPwm(call'.arg) ELSE pwm_file
          /\ (ret'[1] /\ call'.arg \in PwmMin..PwmMax) => pwm_file' = call'.arg
          /\ UNCHANGED <<config, disks, cpu_temp_history, disk_temp_history,
                         warmup_counter, is_warmed_up, status, running>>]_vars

\* an override written while the control is disabled and the warm-up not done
C33_Witness ==
    /\ call = [op |-> "set_manual_pwm", arg |-> 152]
    /\ ret = <<TRUE>>
    /\ pwm_file = 152
    /\ ~config.enabled
    /\ ~is_warmed_up
    /\ running

(***************************************************************************)
(* SpecRefresh: POST /api/refresh between the cycles of the loop.  call    *)
(* keeps the reading the refresh found, ret the status it returned         *)
(***************************************************************************)
InitRefresh ==
    /\ InitWith([BaseConfig EXCEPT !.temp_history_size = 2])
    /\ shadow = config
    /\ call = NoApiCall
    /\ ret = <<>>

\* refresh() called from the API thread while no cycle is in flight
RefreshNow(cpu_temp) ==
    /\ BetweenCycles
    /\ Refresh(cpu_temp, <<>>, 1200, TRUE)
    /\ call' = [op |-> "refresh", arg |-> cpu_temp]
    /\ ret' = <<status'>>
    /\ UNCHANGED <<prev, shadow, lock>>

NextRefresh ==
    \/ \E t \in Threads : NoLiveThread /\ Start(t) /\ OneEngine
    \/ \E t \in Threads : LoopInit(t, {}) /\ OneEngine
    \/ \E t \in Threads, c \in CpuReadings : LoopRead(t, c, <<>>, 1200, TRUE) /\ OneEngine
    \/ \E t \in Threads : LoopDecide(t, TRUE) /\ OneEngine
    \/ \E c \in CpuReadings : RefreshNow(c)

SpecRefresh == InitRefresh /\ [][NextRefresh]_vars

\* the engine after one scheduled cycle that finds the reading c
ScheduledCycle(c) == CycleF(LoopReadF(Eng, c, <<>>, 1200, TRUE, now), TRUE, now)

\* C34: a refresh has the effects of one scheduled cycle on the same readings
\* (sample, warm-up gate, compute, hysteresis, actuate, alert) and returns the
\* status that cycle leaves.
C34_RefreshRunsACycle ==
    [][ApiStep("refresh") =>
          /\ cpu_temp_history' = ScheduledCycle(call'.arg).cpu_temp_history
          /\ warmup_counter' = ScheduledCycle(call'.arg).warmup_counter
          /\ is_warmed_up' = ScheduledCycle(call'.arg).is_warmed_up
          /\ pwm_file' = ScheduledCycle(call'.arg).pwm_file
          /\ status' = ScheduledCycle(call'.arg).status
          /\ ret' = <<ScheduledCycle(call'.arg).status>>]_vars

(***************************************************************************)
(* SpecRestart: start() and stop() called in any order at any moment; a    *)
(* stop() returns when its join is over or timed out, so that the thread   *)
(* it stopped may still be alive at the next start()                       *)
(***************************************************************************)
InitRestart ==
    /\ InitWith([BaseConfig EXCEPT !.temp_history_size = 2])
    /\ shadow = None
    /\ NoCall

NextRestart ==
    \/ \E t \in Threads : Start(t) /\ OneEngine
    \/ Stop /\ OneEngine
    \/ \E t \in Threads : LoopInit(t, {}) /\ OneEngine
    \/ \E t \in Threads : LoopExit(t) /\ OneEngine
    \/ \E t \in Threads, c \in {None, 30} : LoopRead(t, c, <<>>, 1200, TRUE) /\ OneEngine
    \/ \E t \in Threads : LoopDecide(t, TRUE) /\ OneEngine

SpecRestart == InitRestart /\ [][NextRestart]_vars

\* the threads that will run, or are running, a control cycle: inside the
\* while loop with the flag set, or inside _control_cycle
Cycling == {t \in Threads : pc[t] = "decide" \/ (pc[t] = "loop" /\ running)}

\* C35: whatever start() and stop() calls were made, at most one background
\* thread is executing control cycles.
C35_OneLoopThread == Cardinality(Cycling) <= 1

\* a thread of the loop moves on: the scheduler lets every thread run, the
\* set-up ends, a cycle ends, and the sleep ends with the flag found cleared
ThreadMoves(t) ==
    \/ pc[t] = "init" /\ pc' = [pc EXCEPT ![t] = "loop"]
    \/ pc[t] = "decide" /\ pc' = [pc EXCEPT ![t] = "loop"]
    \/ pc[t] = "loop" /\ ~running /\ pc' = [pc EXCEPT ![t] = "off"]

SpecRestartFair == SpecRestart /\ \A t \in Threads : WF_pc(ThreadMoves(t))

\* stop() has just been called on a running engine
StopStep == running /\ ~running'

\* C36: stop() only clears the flag and returns, whether the loop has exited or
\* not; a loop thread begins no cycle while the flag is cleared, and a thread that
\* saw the cleared flag has left the loop; unless a start() follows, every loop
\* thread has exited after the cycle in flight and its sleep.
C36_CooperativeStop ==
    /\ [][/\ StopStep => pc' = pc
          /\ ReadStep => running
          /\ \A t \in Threads :
                (pc[t] = "loop" /\ ~running /\ pc'[t] # pc[t]) => pc'[t] = "off"]_vars
    /\ [](~running => <>(running \/ NoLiveThread))

\* the loop stopped in the middle of a cycle has ended that cycle and left
C36_Witness ==
    /\ ~running
    /\ NoLiveThread
    /\ cycles = 1
    /\ obs.kind = "warmup"

(***************************************************************************)
(* SpecSnapshot: GET /api/status at any moment of the loop, between the      *)
(* sampling and the decision of a cycle included.  ret is the copy of the  *)
(* status the call returned                                                *)
(***************************************************************************)
InitSnapshot ==
    /\ InitWith([BaseConfig EXCEPT !.temp_history_size = 1])
    /\ shadow = config
    /\ call = NoApiCall
    /\ ret = <<>>

\* get_status(): a copy of the status, taken under the lock
StatusNow ==
    /\ ret' = <<status>>
    /\ call' = [op |-> "get_status", arg |-> <<>>]
    /\ SetEng(Eng)
    /\ UNCHANGED <<running, pc, now, cycles, depth_fixed, sampled, prev, shadow, lock>>

NextSnapshot ==
    \/ \E t \in Threads : NoLiveThread /\ Start(t) /\ OneEngine
    \/ \E t \in Threads : LoopInit(t, {}) /\ OneEngine
    \/ \E t \in Threads, c \in CpuReadings : LoopRead(t, c, <<>>, 1200, TRUE) /\ OneEngine
    \/ \E t \in Threads : LoopDecide(t, TRUE) /\ OneEngine
    \/ StatusNow

SpecSnapshot == InitSnapshot /\ [][NextSnapshot]_vars

\* C40: a status snapshot that shows the trigger source "Safety" shows no CPU
\* average and no maximum disk temperature: the decision fields and the sampled
\* fields of a snapshot belong to one cycle.
C40_SnapshotOfOneCycle ==
    (ret # <<>> /\ ret[1].trigger_source = "Safety") =>
        /\ ret[1].cpu_avg_temp = None
        /\ ret[1].max_disk_temp = None

====
